---- MODULE Spec2Model ----
(***************************************************************************)
(* AudioShelf: plugin consolidation, metadata matching, project plugin    *)
(* extraction and usage linking.                                          *)
(*                                                                         *)
(* Strings are TLA+ strings; a character is a string of length one.       *)
(* Every text operation of the JavaScript source (regular expressions,    *)
(* toLowerCase, trim, includes, substring, base64) is computed character  *)
(* by character.                                                           *)
(***************************************************************************)
EXTENDS Integers, Sequences, FiniteSets, TLC

VARIABLES
    \* name normalizer (scanner.js, closure inside consolidatePlugins)
    nPc, nName, nVariant, nKey, nKey2, nVariantKey,
    \* plugin scan (scanner.js, scanAll): the installations found so far,
    \* the consolidated list, and the position of the scan
    allPlugins, consolidatedPlugins, sPc,
    \* project plugin extraction (ableton-scanner.js, extractVSTPlugins):
    \* the parts of the decoded document, the outcome, and the position
    xParts, xResult, xPc,
    \* usage linking (renderer.js, Database.linkProjectsToPlugins): the
    \* parsed projects, the plugins with their usage, and the position
    lProjects, pluginsWithUsage, lPc,
    \* the plugins the first call of linkProjectsToPlugins returned, and the
    \* number of calls made
    lFirst, lCalls,
    \* metadata matching (metadata.js, PluginMetadata): the catalog document
    \* on disk, this.metadata, the plugin of the last lookup, what the
    \* lookup returned, and the position of the object's life
    catalogFile, metadata, mPlugin, mResult, mPc,
    \* the last call of enrichPlugin: its argument, whether this.metadata was
    \* loaded by then, and what it returned
    mEnriched,
    \* project scan (ableton-scanner.js, scanAllProjects): the .als files
    \* found, the index of the next one, the results, and the position
    alsFiles, aNext, projectData, aPc,
    \* demo detection (scanner.js, detectDemoPlugin): the path of the
    \* installation, the answer, and the position
    dPath, dIsDemo, dPc,
    \* classification (bulk-metadata-creator.js, guessCategory): the plugin
    \* name, what the classifier returned, and the position
    cName, cResult, cPc,
    \* consolidation of a given list (scanner.js, consolidatePlugins): the
    \* argument, the returned list, and the position
    rawInstallations, rConsolidated, rPc,
    \* project parsing (ableton-scanner.js, parseProject): the project file,
    \* what parseProject returned, and the position
    pFile, pResult, pPc,
    \* scan of one plugin type (scanner.js, scanPluginType): the directories
    \* of the type as the file system has them, the index of the next one, the
    \* installations found, whether a call of scanDirectory threw, the position
    tDirs, tNext, tPlugins, tThrew, tPc,
    \* parallel extraction (ableton-scanner.js, parseProject run on several files
    \* at once): the documents, the position of each parse, the result of each
    \* extraction, and the plugins the extractions made so far have returned
    eDocs, ePc, eResult, eEarlier,
    \* scanAll (scanner.js): the plugins after the enrichment pass
    enrichedPlugins

nVars == <<nPc, nName, nVariant, nKey, nKey2, nVariantKey>>

sVars == <<allPlugins, consolidatedPlugins, sPc>>

xVars == <<xParts, xResult, xPc>>

lVars == <<lProjects, pluginsWithUsage, lPc, lFirst, lCalls>>

mVars == <<catalogFile, metadata, mPlugin, mResult, mPc, mEnriched>>

aVars == <<alsFiles, aNext, projectData, aPc>>

dVars == <<dPath, dIsDemo, dPc>>

cVars == <<cName, cResult, cPc>>

rVars == <<rawInstallations, rConsolidated, rPc>>

pVars == <<pFile, pResult, pPc>>

tVars == <<tDirs, tNext, tPlugins, tThrew, tPc>>

eVars == <<eDocs, ePc, eResult, eEarlier>>

gVars == <<enrichedPlugins>>

vars == <<nVars, sVars, xVars, lVars, mVars, aVars, dVars, cVars, rVars, pVars, tVars, eVars, gVars>>

\* what the actions of one component leave alone
nOthers == <<sVars, xVars, lVars, mVars, aVars, dVars, cVars, rVars, pVars, tVars, eVars, gVars>>

sOthers == <<nVars, xVars, lVars, mVars, aVars, dVars, cVars, rVars, pVars, tVars, eVars, gVars>>

xOthers == <<nVars, sVars, lVars, mVars, aVars, dVars, cVars, rVars, pVars, tVars, eVars, gVars>>

lOthers == <<nVars, sVars, xVars, mVars, aVars, dVars, cVars, rVars, pVars, tVars, eVars, gVars>>

mOthers == <<nVars, sVars, xVars, lVars, aVars, dVars, cVars, rVars, pVars, tVars, eVars, gVars>>

aOthers == <<nVars, sVars, xVars, lVars, mVars, dVars, cVars, rVars, pVars, tVars, eVars, gVars>>

dOthers == <<nVars, sVars, xVars, lVars, mVars, aVars, cVars, rVars, pVars, tVars, eVars, gVars>>

cOthers == <<nVars, sVars, xVars, lVars, mVars, aVars, dVars, rVars, pVars, tVars, eVars, gVars>>

rOthers == <<nVars, sVars, xVars, lVars, mVars, aVars, dVars, cVars, pVars, tVars, eVars, gVars>>

pOthers == <<nVars, sVars, xVars, lVars, mVars, aVars, dVars, cVars, rVars, tVars, eVars, gVars>>

tOthers == <<nVars, sVars, xVars, lVars, mVars, aVars, dVars, cVars, rVars, pVars, eVars, gVars>>

eOthers == <<nVars, sVars, xVars, lVars, mVars, aVars, dVars, cVars, rVars, pVars, tVars, gVars>>

gOthers == <<nVars, sVars, xVars, lVars, mVars, aVars, dVars, cVars, rVars, pVars, tVars, eVars>>

----------------------------------------------------------------------------
(* Bounds *)

\* number of segments a generated display name is built from
MaxSegs == 3

\* number of plugin installations one scan finds
MaxPlugins == 3

\* number of parts a project document is made of
MaxParts == 3

\* number of project files that are parsed before linking
MaxProjects == 2

\* number of entries of the metadata catalog
MaxCatalog == 2

\* number of .als files in the projects directory
MaxFiles == 3

\* words of a classified plugin name
MaxWords == 2

\* installations of a list given to consolidatePlugins
MaxRaw == 2

\* calls of linkProjectsToPlugins on the same projects
MaxCalls == 3

\* plugin devices of a parsed project document
MaxDevices == 1

\* directories of one plugin type
MaxDirs == 2

\* project files parsed at the same time
MaxParallel == 2

----------------------------------------------------------------------------
(* JavaScript string primitives *)

Min(a, b) == IF a < b THEN a ELSE b

Max(a, b) == IF a > b THEN a ELSE b

Char(s, i) == SubSeq(s, i, i)

UpperChars == "ABCDEFGHIJKLMNOPQRSTUVWXYZ"

LowerChars == "abcdefghijklmnopqrstuvwxyz"

DigitChars == "0123456789"

\* position of character c in the string tbl, 0 when absent
IndexOfChar(tbl, c) ==
    IF \E i \in 1..Len(tbl) : Char(tbl, i) = c
    THEN CHOOSE i \in 1..Len(tbl) : Char(tbl, i) = c
    ELSE 0

IsUpper(c) == IndexOfChar(UpperChars, c) > 0

IsLower(c) == IndexOfChar(LowerChars, c) > 0

IsDigit(c) == IndexOfChar(DigitChars, c) > 0

\* \w of a JavaScript regular expression
IsWordChar(c) == IsUpper(c) \/ IsLower(c) \/ IsDigit(c) \/ c = "_"

\* \s of a JavaScript regular expression (the white space the model uses)
IsSpace(c) == c = " " \/ c = "\t"

ToLowerChar(c) ==
    IF IsUpper(c) THEN Char(LowerChars, IndexOfChar(UpperChars, c)) ELSE c

ToUpperChar(c) ==
    IF IsLower(c) THEN Char(UpperChars, IndexOfChar(LowerChars, c)) ELSE c

RECURSIVE toLowerCase(_)
toLowerCase(s) ==
    IF s = "" THEN "" ELSE ToLowerChar(Head(s)) \o toLowerCase(Tail(s))

RECURSIVE toUpperCase(_)
toUpperCase(s) ==
    IF s = "" THEN "" ELSE ToUpperChar(Head(s)) \o toUpperCase(Tail(s))

RECURSIVE TrimStart(_)
TrimStart(s) ==
    IF s # "" /\ IsSpace(Head(s)) THEN TrimStart(Tail(s)) ELSE s

RECURSIVE TrimEnd(_)
TrimEnd(s) ==
    IF s # "" /\ IsSpace(Char(s, Len(s)))
    THEN TrimEnd(SubSeq(s, 1, Len(s) - 1))
    ELSE s

trim(s) == TrimEnd(TrimStart(s))

\* s.substring(0, n)
substring0(s, n) == SubSeq(s, 1, Min(n, Len(s)))

\* does the literal lit stand at position i of s
LitAt(s, i, lit) ==
    /\ i + Len(lit) - 1 <= Len(s)
    /\ SubSeq(s, i, i + Len(lit) - 1) = lit

\* the same, ignoring case (flag i)
LitAtNoCase(s, i, lit) ==
    /\ i + Len(lit) - 1 <= Len(s)
    /\ toLowerCase(SubSeq(s, i, i + Len(lit) - 1)) = toLowerCase(lit)

\* s.includes(sub)
includes(s, sub) == \E i \in 1..(Len(s) + 1) : LitAt(s, i, sub)

\* first position >= i of s that holds no white space
RECURSIVE SkipSpace(_, _)
SkipSpace(s, i) ==
    IF i <= Len(s) /\ IsSpace(Char(s, i)) THEN SkipSpace(s, i + 1) ELSE i

----------------------------------------------------------------------------
(* Name normalizer: scanner.js, normalizePluginName inside                *)
(* consolidatePlugins                                                      *)

\* the alternatives of /^(UAD\s+|iZotope\s+|Native Instruments\s+)/i
VendorPrefixes == <<"UAD", "iZotope", "Native Instruments">>

\* the alternatives of /\s*\((VST3?|AU)\)\s*/g
FormatIndicators == <<"(VST3)", "(VST)", "(AU)">>

\* the alternatives of /\s*\[Bundle\]\s*|\s*\[File\]\s*/g
BundleIndicators == <<"[Bundle]", "[File]">>

\* .replace(/^(UAD\s+|iZotope\s+|Native Instruments\s+)/i, ''): one prefix,
\* at the start only, followed by at least one white space
StripVendorPrefix(s) ==
    LET hit(k) == /\ LitAtNoCase(s, 1, VendorPrefixes[k])
                  /\ Len(s) > Len(VendorPrefixes[k])
                  /\ IsSpace(Char(s, Len(VendorPrefixes[k]) + 1))
    IN  IF \E k \in 1..Len(VendorPrefixes) : hit(k)
        THEN LET k == CHOOSE k \in 1..Len(VendorPrefixes) :
                          hit(k) /\ \A j \in 1..(k - 1) : ~hit(j)
                 e == SkipSpace(s, Len(VendorPrefixes[k]) + 1)
             IN  SubSeq(s, e, Len(s))
        ELSE s

\* length of the literal of lits standing at position i of s, 0 when none
LitLenAt(s, i, lits) ==
    IF \E k \in 1..Len(lits) : LitAt(s, i, lits[k])
    THEN Len(lits[CHOOSE k \in 1..Len(lits) : LitAt(s, i, lits[k])])
    ELSE 0

\* .replace(/\s*LIT\s*/g, '') for the literals of lits: every occurrence is
\* removed together with the white space around it
RECURSIVE RemoveIndicators(_, _, _)
RemoveIndicators(s, i, lits) ==
    IF i > Len(s) THEN ""
    ELSE LET j == SkipSpace(s, i)
             n == LitLenAt(s, j, lits)
         IN  IF n > 0
             THEN RemoveIndicators(s, SkipSpace(s, j + n), lits)
             ELSE Char(s, i) \o RemoveIndicators(s, i + 1, lits)

\* .replace(/\s+/g, ' ')
RECURSIVE CollapseSpace(_, _)
CollapseSpace(s, i) ==
    IF i > Len(s) THEN ""
    ELSE IF IsSpace(Char(s, i))
         THEN " " \o CollapseSpace(s, SkipSpace(s, i))
         ELSE Char(s, i) \o CollapseSpace(s, i + 1)

\* .replace(/[^\w\s\-\.]/g, '')
RECURSIVE DropSpecial(_)
DropSpecial(s) ==
    IF s = "" THEN ""
    ELSE LET c == Head(s)
         IN  (IF IsWordChar(c) \/ IsSpace(c) \/ c = "-" \/ c = "."
              THEN c ELSE "") \o DropSpecial(Tail(s))

normalizePluginName(name) ==
    toLowerCase(trim(DropSpecial(CollapseSpace(
        RemoveIndicators(
            RemoveIndicators(StripVendorPrefix(name), 1, FormatIndicators),
            1, BundleIndicators), 1))))

----------------------------------------------------------------------------
(* Plugin analysis: scanner.js, analyzePlugin and its helpers (POSIX paths) *)

\* largest position of character c in s, 0 when absent
LastIndexOfChar(s, c) ==
    IF \E i \in 1..Len(s) : Char(s, i) = c
    THEN CHOOSE i \in 1..Len(s) :
             Char(s, i) = c /\ \A j \in (i + 1)..Len(s) : Char(s, j) # c
    ELSE 0

\* path.basename(p)
basename(p) == SubSeq(p, LastIndexOfChar(p, "/") + 1, Len(p))

\* path.extname(p)
extname(p) ==
    LET b == basename(p)
        i == LastIndexOfChar(b, ".")
    IN  IF i <= 1 THEN "" ELSE SubSeq(b, i, Len(b))

\* path.basename(p, path.extname(p))
basenameNoExt(p) ==
    LET b == basename(p) IN SubSeq(b, 1, Len(b) - Len(extname(p)))

\* filePath.split(path.sep)
RECURSIVE SplitPath(_)
SplitPath(p) ==
    IF \E i \in 1..Len(p) : Char(p, i) = "/"
    THEN LET i == CHOOSE i \in 1..Len(p) :
                      Char(p, i) = "/" /\ \A j \in 1..(i - 1) : Char(p, j) # "/"
         IN  <<SubSeq(p, 1, i - 1)>> \o SplitPath(SubSeq(p, i + 1, Len(p)))
    ELSE <<p>>

EndsWithNoCase(s, suf) ==
    Len(s) >= Len(suf) /\ LitAtNoCase(s, Len(s) - Len(suf) + 1, suf)

\* the first literal of lits (ignoring case) that s starts with, "" when none
FirstPrefixOf(s, lits) ==
    IF \E k \in 1..Len(lits) : LitAtNoCase(s, 1, lits[k])
    THEN lits[CHOOSE k \in 1..Len(lits) :
                  LitAtNoCase(s, 1, lits[k])
                  /\ \A j \in 1..(k - 1) : ~LitAtNoCase(s, 1, lits[j])]
    ELSE ""

\* the literal of lits (ignoring case) that s ends with, "" when none
FirstSuffixOf(s, lits) ==
    IF \E k \in 1..Len(lits) : EndsWithNoCase(s, lits[k])
    THEN lits[CHOOSE k \in 1..Len(lits) :
                  EndsWithNoCase(s, lits[k])
                  /\ \A j \in 1..(k - 1) : ~EndsWithNoCase(s, lits[j])]
    ELSE ""

\* .replace(/_/g, ' ')
RECURSIVE UnderscoresToSpaces(_)
UnderscoresToSpaces(s) ==
    IF s = "" THEN ""
    ELSE (IF Head(s) = "_" THEN " " ELSE Head(s)) \o UnderscoresToSpaces(Tail(s))

\* .replace(/\b\w/g, l => l.toUpperCase())
RECURSIVE CapitalizeWords(_, _)
CapitalizeWords(s, i) ==
    IF i > Len(s) THEN ""
    ELSE (IF IsWordChar(Char(s, i)) /\ (i = 1 \/ ~IsWordChar(Char(s, i - 1)))
          THEN ToUpperChar(Char(s, i))
          ELSE Char(s, i)) \o CapitalizeWords(s, i + 1)

cleanPluginName(filename) ==
    LET pre == FirstPrefixOf(filename, <<"VST_", "VST3_", "AU_">>)
        s1  == SubSeq(filename, Len(pre) + 1, Len(filename))
        suf == FirstSuffixOf(s1, <<"_x64", "_x86", "_64", "_32", "_win", "_mac">>)
        s2  == SubSeq(s1, 1, Len(s1) - Len(suf))
    IN  trim(CapitalizeWords(UnderscoresToSpaces(s2), 1))

\* part.match(/^(VST|VST3|AU|Plug-Ins|Components)$/i)
IsFormatFolder(part) ==
    toLowerCase(part) \in {"vst", "vst3", "au", "plug-ins", "components"}

RECURSIVE LeadingLetters(_)
LeadingLetters(s) ==
    IF s # "" /\ (IsUpper(Head(s)) \/ IsLower(Head(s)))
    THEN Head(s) \o LeadingLetters(Tail(s))
    ELSE ""

extractVendor(filePath, filename) ==
    LET pathParts == SplitPath(filePath)
        ok(i) == /\ pathParts[i] # ""
                 /\ pathParts[i] # filename
                 /\ ~IsFormatFolder(pathParts[i])
    IN  IF \E i \in 1..Len(pathParts) : ok(i)
        THEN pathParts[CHOOSE i \in 1..Len(pathParts) :
                           ok(i) /\ \A j \in (i + 1)..Len(pathParts) : ~ok(j)]
        ELSE IF LeadingLetters(filename) # ""
             THEN LeadingLetters(filename)
             ELSE "Unknown"

IncludesAny(s, words) == \E w \in words : includes(s, w)

\* scanner.js guessCategory
guessCategory(filename) ==
    LET name == toLowerCase(filename)
    IN  IF IncludesAny(name, {"synth", "serum", "massive", "operator", "analog",
                              "fm", "bass", "lead", "pad"})
        THEN "Synthesizer"
        ELSE IF IncludesAny(name, {"reverb", "delay", "echo", "chorus", "flanger",
                                   "phaser", "distortion", "compressor", "eq",
                                   "filter"})
        THEN "Effect"
        ELSE IF IncludesAny(name, {"drum", "kick", "snare", "hat", "percussion"})
        THEN "Drums"
        ELSE IF IncludesAny(name, {"sampler", "kontakt", "player"})
        THEN "Sampler"
        ELSE IF IncludesAny(name, {"analyzer", "meter", "spectrum", "tuner"})
        THEN "Utility"
        ELSE "Other"

\* printable ASCII: codes 32..95 and 97..126 (code 96, the grave accent,
\* cannot be written in a string of this language and occurs in no path)
AsciiLowChars ==
    " !\"#$%&'()*+,-./0123456789:;<=>?@ABCDEFGHIJKLMNOPQRSTUVWXYZ[\\]^_"

AsciiHighChars == "abcdefghijklmnopqrstuvwxyz{|}~"

\* Buffer.from(s): the byte of an ASCII character
ByteOf(c) ==
    IF IndexOfChar(AsciiLowChars, c) > 0
    THEN IndexOfChar(AsciiLowChars, c) + 31
    ELSE IndexOfChar(AsciiHighChars, c) + 96

Base64Chars ==
    "ABCDEFGHIJKLMNOPQRSTUVWXYZabcdefghijklmnopqrstuvwxyz0123456789+/"

Sextet(n) == Char(Base64Chars, n + 1)

\* buf.toString('base64')
RECURSIVE toBase64(_)
toBase64(s) ==
    IF s = "" THEN ""
    ELSE IF Len(s) = 1
    THEN LET b1 == ByteOf(Char(s, 1))
         IN  Sextet(b1 \div 4) \o Sextet((b1 % 4) * 16) \o "=="
    ELSE IF Len(s) = 2
    THEN LET b1 == ByteOf(Char(s, 1))
             b2 == ByteOf(Char(s, 2))
         IN  Sextet(b1 \div 4) \o Sextet((b1 % 4) * 16 + b2 \div 16)
                 \o Sextet((b2 % 16) * 4) \o "="
    ELSE LET b1 == ByteOf(Char(s, 1))
             b2 == ByteOf(Char(s, 2))
             b3 == ByteOf(Char(s, 3))
         IN  Sextet(b1 \div 4) \o Sextet((b1 % 4) * 16 + b2 \div 16)
                 \o Sextet((b2 % 16) * 4 + b3 \div 64) \o Sextet(b3 % 64)
                 \o toBase64(SubSeq(s, 4, Len(s)))

\* .replace(/[^a-zA-Z0-9]/g, '')
RECURSIVE KeepAlnum(_)
KeepAlnum(s) ==
    IF s = "" THEN ""
    ELSE LET c == Head(s)
         IN  (IF IsUpper(c) \/ IsLower(c) \/ IsDigit(c) THEN c ELSE "")
                 \o KeepAlnum(Tail(s))

generatePluginId(filePath) == substring0(KeepAlnum(toBase64(filePath)), 16)

\* detectDemoPlugin: the indicators looked for in the file name
demoKeywords ==
    <<"demo", "trial", "lite", "limited", "free", "eval", "evaluation",
      " le ", "_le_", " le.", "_le.", "beta", "preview", "sample">>

demoPathKeywords_BetaAndPreviewOnly ==
    <<"/beta/", "/preview/", "\\beta\\", "\\preview\\">>

\* detectDemoPlugin: the indicators looked for in the path
demoPathKeywords ==
    <<"/demo/", "/trial/", "/free/", "/beta/", "/preview/",
      "\\demo\\", "\\trial\\", "\\free\\", "\\beta\\", "\\preview\\">>

\* detectDemoPlugin: the known demo plugins
knownDemos ==
    <<"kontakt player", "kontakt 7 player", "amplitube custom shop",
      "guitar rig player", "reaktor player">>

\* some literal of lits occurs in s
IncludesOneOf(s, lits) == \E k \in 1..Len(lits) : includes(s, lits[k])

\* the detector without its last loop
detectDemoPlugin_NoKnownDemos(pluginPath, filename) ==
    \/ IncludesOneOf(toLowerCase(filename), demoKeywords)
    \/ IncludesOneOf(toLowerCase(pluginPath), demoPathKeywords)

detectDemoPlugin(pluginPath, filename) ==
    LET fullPath == toLowerCase(pluginPath)
        name     == toLowerCase(filename)
    IN  \/ IncludesOneOf(name, demoKeywords)
        \/ IncludesOneOf(fullPath, demoPathKeywords)
        \/ IncludesOneOf(name, knownDemos)

\* the plugin record analyzePlugin builds from a file system entry
\* st = [path, size, mtime, isDirectory] (fs.stat), now = the time of analysis
analyzePlugin(st, format, now) ==
    LET filename == basenameNoExt(st.path)
    IN  [id       |-> generatePluginId(st.path),
         name     |-> cleanPluginName(filename),
         path     |-> st.path,
         format   |-> format,
         vendor   |-> extractVendor(st.path, filename),
         size     |-> IF st.isDirectory THEN 0 ELSE st.size,
         modified |-> st.mtime,
         category |-> guessCategory(filename),
         isBundle |-> st.isDirectory,
         scanDate |-> now,
         isDemo   |-> detectDemoPlugin(st.path, filename)]

----------------------------------------------------------------------------
(* Consolidation: scanner.js, consolidatePlugins                           *)
(* pluginMap is a JavaScript Map: a sequence of [key, value] entries in   *)
(* insertion order                                                         *)

\* the key without normalization
ConsolidationKey_RawName(plugin) == plugin.name

\* const key = normalizedName
ConsolidationKey(plugin) == normalizePluginName(plugin.name)

MapHas(map, key) == \E i \in 1..Len(map) : map[i].key = key

MapIndex(map, key) == CHOOSE i \in 1..Len(map) : map[i].key = key

FormatEntry(plugin) ==
    [format   |-> plugin.format,
     path     |-> plugin.path,
     size     |-> plugin.size,
     modified |-> plugin.modified,
     isBundle |-> plugin.isBundle]

\* the merge that never advances the date of the entity
MergeInto_KeepsFirstDate(existing, plugin) ==
    [existing EXCEPT !.formats = Append(@, FormatEntry(plugin))]

\* the merge taking the date of whichever installation comes last
MergeInto_LastWins(existing, plugin) ==
    [existing EXCEPT !.formats = Append(@, FormatEntry(plugin)),
                     !.modified = plugin.modified,
                     !.scanDate = plugin.scanDate]

\* the merge letting a more recent installation replace the main entry
MergeInto_NewerReplaces(existing, plugin) ==
    LET pushed == [existing EXCEPT !.formats = Append(@, FormatEntry(plugin))]
    IN  IF plugin.modified > existing.modified
        THEN [pushed EXCEPT !.id = plugin.id,
                            !.name = plugin.name,
                            !.vendor = plugin.vendor,
                            !.category = plugin.category,
                            !.modified = plugin.modified,
                            !.scanDate = plugin.scanDate]
        ELSE pushed

\* the branch "plugin already exists": push the format, keep the later date
MergeInto(existing, plugin) ==
    LET pushed == [existing EXCEPT !.formats = Append(@, FormatEntry(plugin))]
    IN  IF plugin.modified > existing.modified
        THEN [pushed EXCEPT !.modified = plugin.modified,
                            !.scanDate = plugin.scanDate]
        ELSE pushed

\* the new entry without the format of the installation it is made from
NewEntry_NoFormats(plugin) ==
    [id       |-> plugin.id,
     name     |-> plugin.name,
     vendor   |-> plugin.vendor,
     category |-> plugin.category,
     modified |-> plugin.modified,
     scanDate |-> plugin.scanDate,
     formats  |-> <<>>]

\* the branch "new plugin": the consolidated entry of a first-seen installation
NewEntry(plugin) ==
    [id       |-> plugin.id,
     name     |-> plugin.name,
     vendor   |-> plugin.vendor,
     category |-> plugin.category,
     modified |-> plugin.modified,
     scanDate |-> plugin.scanDate,
     formats  |-> <<FormatEntry(plugin)>>]

\* one round of "for (const plugin of plugins)"
ConsolidateOne(map, plugin) ==
    LET key == ConsolidationKey(plugin)
    IN  IF MapHas(map, key)
        THEN [map EXCEPT ![MapIndex(map, key)].value = MergeInto(@, plugin)]
        ELSE Append(map, [key |-> key, value |-> NewEntry(plugin)])

RECURSIVE ConsolidateLoop(_, _, _)
ConsolidateLoop(map, plugins, i) ==
    IF i > Len(plugins) THEN map
    ELSE ConsolidateLoop(ConsolidateOne(map, plugins[i]), plugins, i + 1)

\* the order of the characters in the root collation of String.localeCompare:
\* white space, punctuation, symbols, digits, then the letters
CollationChars ==
    "\t _-,;:!?.'\"()[]{}@*/\\&#%^+<=>|~$0123456789abcdefghijklmnopqrstuvwxyz"

\* primary weight of a character: letters are compared without their case
PrimaryWeight(c) == IndexOfChar(CollationChars, ToLowerChar(c))

\* a.localeCompare(b) at the primary level: -1, 0 or 1
RECURSIVE PrimaryCompare(_, _)
PrimaryCompare(a, b) ==
    IF a = "" /\ b = "" THEN 0
    ELSE IF a = "" THEN -1
    ELSE IF b = "" THEN 1
    ELSE IF PrimaryWeight(Head(a)) < PrimaryWeight(Head(b)) THEN -1
    ELSE IF PrimaryWeight(Head(a)) > PrimaryWeight(Head(b)) THEN 1
    ELSE PrimaryCompare(Tail(a), Tail(b))

\* the case level, used when the primary weights are all equal: at the first
\* difference the lower-case letter comes first
RECURSIVE CaseCompare(_, _)
CaseCompare(a, b) ==
    IF a = "" \/ b = "" THEN 0
    ELSE IF Head(a) = Head(b) THEN CaseCompare(Tail(a), Tail(b))
    ELSE IF IsLower(Head(a)) THEN -1 ELSE 1

localeCompare(a, b) ==
    IF PrimaryCompare(a, b) # 0 THEN PrimaryCompare(a, b) ELSE CaseCompare(a, b)

\* insert e into the sorted sequence sorted, after the elements it does
\* not precede (Array.prototype.sort is stable)
RECURSIVE InsertByName(_, _)
InsertByName(sorted, e) ==
    IF sorted = <<>> THEN <<e>>
    ELSE IF localeCompare(e.name, Head(sorted).name) < 0
         THEN <<e>> \o sorted
         ELSE <<Head(sorted)>> \o InsertByName(Tail(sorted), e)

\* .sort((a, b) => a.name.localeCompare(b.name))
RECURSIVE SortByName(_)
SortByName(list) ==
    IF list = <<>> THEN <<>>
    ELSE InsertByName(SortByName(SubSeq(list, 1, Len(list) - 1)),
                      list[Len(list)])

MapValues(map) == [i \in 1..Len(map) |-> map[i].value]

\* the consolidation that returns the entities in the order of the map
consolidatePlugins_Unsorted(plugins) ==
    MapValues(ConsolidateLoop(<<>>, plugins, 1))

consolidatePlugins(plugins) ==
    SortByName(MapValues(ConsolidateLoop(<<>>, plugins, 1)))

----------------------------------------------------------------------------
(* The plugin scan: scanner.js, scanAll / scanPluginType / scanDirectory  *)

\* the plugin files and bundles of the scanned directories (fs.stat)
PluginFiles ==
    {[path |-> "/Library/Audio/Plug-Ins/VST/Serum.vst",
      size |-> 0, mtime |-> 1, isDirectory |-> TRUE],
     [path |-> "/Library/Audio/Plug-Ins/VST3/Serum.vst3",
      size |-> 0, mtime |-> 3, isDirectory |-> TRUE],
     [path |-> "/Library/Audio/Plug-Ins/Components/SERUM.component",
      size |-> 0, mtime |-> 2, isDirectory |-> TRUE],
     [path |-> "/Library/Audio/Plug-Ins/VST3/iZotope Ozone 9.vst3",
      size |-> 7, mtime |-> 2, isDirectory |-> FALSE],
     [path |-> "/Users/mixy/Library/Audio/Plug-Ins/VST/Ozone 9.vst",
      size |-> 0, mtime |-> 1, isDirectory |-> TRUE],
     [path |-> "/Library/Audio/Plug-Ins/VST3/Massive.vst3",
      size |-> 0, mtime |-> 2, isDirectory |-> TRUE]}

\* type.toUpperCase() of the scan that looks for the extension (darwin)
FormatOfExtension(ext) ==
    IF ext = ".vst" THEN "VST"
    ELSE IF ext = ".vst3" THEN "VST3"
    ELSE "AU"

ScanInit ==
    /\ sPc = "scanning"
    /\ allPlugins = <<>>
    /\ consolidatedPlugins = <<>>

\* scanDirectory meets a plugin file or bundle it has not met before:
\* plugins.push(await this.analyzePlugin(fullPath, format))
FoundPlugin ==
    /\ sPc = "scanning"
    /\ Len(allPlugins) < MaxPlugins
    /\ \E st \in PluginFiles :
          /\ \A i \in 1..Len(allPlugins) : allPlugins[i].path # st.path
          /\ allPlugins' = Append(allPlugins,
                 analyzePlugin(st, FormatOfExtension(toLowerCase(extname(st.path))),
                               Len(allPlugins) + 1))
    /\ UNCHANGED <<sPc, consolidatedPlugins, sOthers>>

\* const consolidatedPlugins = this.consolidatePlugins(allPlugins)
Consolidate ==
    /\ sPc = "scanning"
    /\ consolidatedPlugins' = consolidatePlugins(allPlugins)
    /\ sPc' = "consolidated"
    /\ UNCHANGED <<allPlugins, sOthers>>

----------------------------------------------------------------------------
(* Project plugin extraction: ableton-scanner.js, extractVSTPlugins        *)
(* A document is a sequence of tags; xmlString is their concatenation.     *)
(* No attribute value holds a "<" or a ">", so a match of [^>]* stays     *)
(* inside one tag and a pattern element "<Tag" matches at a tag start.     *)

\* null, as cleanPluginName returns it
Null == "<null>"

RECURSIVE Concat(_)
Concat(tags) == IF tags = <<>> THEN "" ELSE Head(tags) \o Concat(Tail(tags))

\* first position >= i of s where lit stands, 0 when there is none
RECURSIVE IndexOfFrom(_, _, _)
IndexOfFrom(s, lit, i) ==
    IF i + Len(lit) - 1 > Len(s) THEN 0
    ELSE IF LitAt(s, i, lit) THEN i
    ELSE IndexOfFrom(s, lit, i + 1)

\* /<Tag[^>]*>/ at the start of tag t
IsOpenTag(t, tagName) ==
    LitAt(t, 1, "<" \o tagName) /\ IndexOfFrom(t, ">", 1) > 0

\* last position <= i of s where lit stands, 0 when there is none
RECURSIVE LastIndexOfUpTo(_, _, _)
LastIndexOfUpTo(s, lit, i) ==
    IF i < 1 THEN 0
    ELSE IF LitAt(s, i, lit) THEN i
    ELSE LastIndexOfUpTo(s, lit, i - 1)

\* /<Tag[^>]*Attr="([^"]*)"[^>]*>/ at the start of tag t, the tag ending in
\* ending (">" or "/>"): the captured value. [^>]* is greedy, so the last
\* Attr=" of the tag that has a closing quote is the one captured.
AttributeOf(t, tagName, attr, ending) ==
    LET gt  == IndexOfFrom(t, ">", 1)
        lit == attr \o "=\""
        v   == LastIndexOfUpTo(t, lit, gt - Len(lit) - 1)
        q   == IF v = 0 THEN 0 ELSE IndexOfFrom(t, "\"", v + Len(lit))
    IN  IF /\ LitAt(t, 1, "<" \o tagName)
           /\ v > Len(tagName) + 1 /\ q > 0 /\ gt > q
           /\ LitAt(t, gt - Len(ending) + 1, ending)
        THEN [matched |-> TRUE, value |-> SubSeq(t, v + Len(lit), q - 1)]
        ELSE [matched |-> FALSE, value |-> ""]

\* /<Field[^>]*Value="([^"]*)"[^>]*\/>/ at the start of tag t
ValueAttribute(t, field) == AttributeOf(t, field, "Value", "/>")

\* /<Field>([^<]*)<\/Field>/ at the start of tag t
ElementText(t, field) ==
    LET open  == "<" \o field \o ">"
        close == "</" \o field \o ">"
        lt    == IndexOfFrom(t, "<", Len(open) + 1)
    IN  IF LitAt(t, 1, open) /\ lt > 0 /\ LitAt(t, lt, close)
        THEN [matched |-> TRUE, value |-> SubSeq(t, Len(open) + 1, lt - 1)]
        ELSE [matched |-> FALSE, value |-> ""]

\* the four patterns of vstPatterns: block tag, field, form of the field
vstPatterns ==
    <<[block |-> "Vst3PluginInfo", field |-> "Name",     form |-> "attribute"],
      [block |-> "Vst3PluginInfo", field |-> "Name",     form |-> "element"],
      [block |-> "VstPluginInfo",  field |-> "FileName", form |-> "attribute"],
      [block |-> "VstPluginInfo",  field |-> "FileName", form |-> "element"]>>

FieldMatch(t, pattern) ==
    IF pattern.form = "attribute"
    THEN ValueAttribute(t, pattern.field)
    ELSE ElementText(t, pattern.field)

\* smallest index >= i at which hits is TRUE, 0 when there is none
FirstFrom(hits, i) ==
    IF \E k \in i..Len(hits) : hits[k]
    THEN CHOOSE k \in i..Len(hits) :
             hits[k] /\ \A j \in i..(k - 1) : ~hits[j]
    ELSE 0

\* while ((match = pattern.exec(xmlString)) !== null): the captures of all
\* matches from tag lastIndex on. A match runs from the next block tag,
\* over anything ([\s\S]*?), to the nearest field tag after it.
RECURSIVE ExecAll(_, _, _)
ExecAll(tags, pattern, lastIndex) ==
    LET isBlock == [k \in 1..Len(tags) |-> IsOpenTag(tags[k], pattern.block)]
        isField == [k \in 1..Len(tags) |-> FieldMatch(tags[k], pattern).matched]
        b == FirstFrom(isBlock, lastIndex)
        f == IF b = 0 THEN 0 ELSE FirstFrom(isField, b + 1)
    IN  IF f = 0 THEN <<>>
        ELSE <<FieldMatch(tags[f], pattern).value>>
                 \o ExecAll(tags, pattern, f + 1)

\* /\.(dll|vst|vst3|component)$/i
PluginExtensions == <<".dll", ".vst", ".vst3", ".component">>

RECURSIVE AllDigits(_)
AllDigits(s) == s = "" \/ (IsDigit(Head(s)) /\ AllDigits(Tail(s)))

RECURSIVE SkipDigits(_, _)
SkipDigits(s, i) ==
    IF i <= Len(s) /\ IsDigit(Char(s, i)) THEN SkipDigits(s, i + 1) ELSE i

IsHexDigit(c) == IsDigit(c) \/ IndexOfChar("abcdefABCDEF", c) > 0

\* /^(Track|Audio|Master)\s*\d*$/i
IsTrackName(s) ==
    \E w \in {"Track", "Audio", "Master"} :
        /\ LitAtNoCase(s, 1, w)
        /\ SkipDigits(s, SkipSpace(s, Len(w) + 1)) = Len(s) + 1

\* /^\d+\s*-\s*/
IsNumberedName(s) ==
    LET d == SkipDigits(s, 1)
    IN  d > 1 /\ LitAt(s, SkipSpace(s, d), "-")

\* /\d{4}-\d{2}-\d{2}/
HasDateStamp(s) ==
    \E i \in 1..Len(s) :
        /\ i + 9 <= Len(s)
        /\ AllDigits(SubSeq(s, i, i + 3)) /\ Char(s, i + 4) = "-"
        /\ AllDigits(SubSeq(s, i + 5, i + 6)) /\ Char(s, i + 7) = "-"
        /\ AllDigits(SubSeq(s, i + 8, i + 9))

\* /^[a-f0-9]{8}-[a-f0-9]{4}/i
IsGuid(s) ==
    /\ Len(s) >= 13
    /\ \A i \in 1..8 : IsHexDigit(Char(s, i))
    /\ Char(s, 9) = "-"
    /\ \A i \in 10..13 : IsHexDigit(Char(s, i))

builtInDevices ==
    {"Operator", "Simpler", "Impulse", "DrumRack", "InstrumentRack",
     "Wavetable", "Bass", "Collision", "Tension", "Analog", "Compressor",
     "EQ Eight", "Reverb", "Delay", "Chorus", "Flanger", "Phaser",
     "AutoFilter", "AutoPan", "Saturator", "Redux", "Vocoder",
     "Spectrum", "Tuner", "Limiter", "Gate", "Multiband Dynamics"}

\* ableton-scanner.js cleanPluginName
Ableton_cleanPluginName(rawName) ==
    LET ext     == FirstSuffixOf(rawName, PluginExtensions)
        cleaned == trim(SubSeq(rawName, 1, Len(rawName) - Len(ext)))
    IN  IF rawName = "" THEN Null
        ELSE IF Len(cleaned) < 2 THEN Null
        ELSE IF cleaned \in builtInDevices THEN Null
        ELSE IF IsTrackName(cleaned) \/ IsNumberedName(cleaned)
                \/ HasDateStamp(cleaned) \/ IsGuid(cleaned)
        THEN Null
        ELSE cleaned

knownPluginNames ==
    <<"EZdrummer 3", "Helix Native", "Serum", "Massive", "Operator",
      "Trash 2", "Chorus JUN-6", "Dimension", "iZotope", "FabFilter",
      "Waves", "Native Instruments", "Arturia", "U-he", "Xfer">>

SeqIncludes(list, x) == \E i \in 1..Len(list) : list[i] = x

\* the direct search: every known name that occurs anywhere in xmlString
RECURSIVE DirectSearch(_, _)
DirectSearch(xmlString, k) ==
    IF k > Len(knownPluginNames) THEN <<>>
    ELSE (IF includes(xmlString, knownPluginNames[k])
          THEN <<knownPluginNames[k]>> ELSE <<>>)
             \o DirectSearch(xmlString, k + 1)

\* push every cleaned name of raws that is not null and not yet in plugins
RECURSIVE PushCleaned(_, _)
PushCleaned(plugins, raws) ==
    IF raws = <<>> THEN plugins
    ELSE LET c == Ableton_cleanPluginName(Head(raws))
         IN  PushCleaned(IF c # Null /\ ~SeqIncludes(plugins, c)
                         THEN Append(plugins, c) ELSE plugins,
                         Tail(raws))

\* push every name of names that is not yet in plugins
RECURSIVE PushNew(_, _)
PushNew(plugins, names) ==
    IF names = <<>> THEN plugins
    ELSE PushNew(IF SeqIncludes(plugins, Head(names))
                 THEN plugins ELSE Append(plugins, Head(names)),
                 Tail(names))

\* vstPatterns.forEach(...)
RECURSIVE RunPatterns(_, _, _)
RunPatterns(plugins, tags, k) ==
    IF k > Len(vstPatterns) THEN plugins
    ELSE RunPatterns(PushCleaned(plugins, ExecAll(tags, vstPatterns[k], 1)),
                     tags, k + 1)

\* comparison of Array.prototype.sort without a comparator: UTF-16 code units
RECURSIVE CodeUnitLess(_, _)
CodeUnitLess(a, b) ==
    IF b = "" THEN FALSE
    ELSE IF a = "" THEN TRUE
    ELSE IF ByteOf(Head(a)) # ByteOf(Head(b))
         THEN ByteOf(Head(a)) < ByteOf(Head(b))
         ELSE CodeUnitLess(Tail(a), Tail(b))

RECURSIVE InsertSorted(_, _)
InsertSorted(sorted, x) ==
    IF sorted = <<>> THEN <<x>>
    ELSE IF CodeUnitLess(x, Head(sorted))
         THEN <<x>> \o sorted
         ELSE <<Head(sorted)>> \o InsertSorted(Tail(sorted), x)

\* list.sort()
RECURSIVE SortStrings(_)
SortStrings(list) ==
    IF list = <<>> THEN <<>>
    ELSE InsertSorted(SortStrings(SubSeq(list, 1, Len(list) - 1)),
                      list[Len(list)])

\* [...new Set(plugins)]
RECURSIVE Unique(_)
Unique(list) ==
    IF list = <<>> THEN <<>>
    ELSE LET init == Unique(SubSeq(list, 1, Len(list) - 1))
         IN  IF SeqIncludes(init, list[Len(list)])
             THEN init ELSE Append(init, list[Len(list)])

\* the number of matches of /<Tag[^>]*>/g
CountTags(tags, tagName) ==
    Cardinality({i \in 1..Len(tags) : IsOpenTag(tags[i], tagName)})

\* extractVSTPlugins(xmlString): with a Vst3PluginInfo tag in the document
\* the debug branch reads alsFilePath, a name that is not in scope, and the
\* call ends with a ReferenceError; otherwise the sorted list is returned
extractVSTPlugins(tags) ==
    IF CountTags(tags, "Vst3PluginInfo") > 0
    THEN [threw |-> TRUE, plugins |-> <<>>]
    ELSE LET foundPlugins == DirectSearch(Concat(tags), 1)
             plugins      == PushNew(RunPatterns(<<>>, tags, 1), foundPlugins)
         IN  [threw |-> FALSE, plugins |-> SortStrings(Unique(plugins))]

\* parts of decoded project documents, each a sequence of tags
DeviceSerum ==
    <<"<PluginDevice Id=\"1\">", "<VstPluginInfo Id=\"0\">",
      "<FileName Value=\"Serum.vst\" />", "</VstPluginInfo>",
      "</PluginDevice>">>

DeviceProQ ==
    <<"<PluginDevice Id=\"2\">", "<VstPluginInfo Id=\"0\">",
      "<FileName>Pro-Q 3.vst</FileName>", "</VstPluginInfo>",
      "</PluginDevice>">>

DeviceHelix ==
    <<"<PluginDevice Id=\"3\">", "<Vst3PluginInfo Id=\"0\">",
      "<Name Value=\"Helix Native\" />", "</Vst3PluginInfo>",
      "</PluginDevice>">>

DeviceUnnamed ==
    <<"<PluginDevice Id=\"4\">", "<VstPluginInfo Id=\"0\">",
      "<PlugName Value=\"\" />", "</VstPluginInfo>", "</PluginDevice>">>

HistorySerum ==
    <<"<BrowserContentPath Value=\"query:Plugins#VST3:Xfer%20Records:Serum\" />">>

HistoryValhalla ==
    <<"<BrowserContentPath Value=\"query:Plugins#VST:Local:ValhallaRoom\" />">>

SampleRef ==
    <<"<FileRef>", "<FileName Value=\"Kick 01.wav\" />", "</FileRef>">>

BuiltInOperator ==
    <<"<Operator Id=\"5\">", "<UserName Value=\"\" />", "</Operator>">>

DocumentParts ==
    {DeviceSerum, DeviceProQ, DeviceHelix, DeviceUnnamed,
     HistorySerum, HistoryValhalla, SampleRef, BuiltInOperator}

\* the parts that are browsing history
HistoryParts == {HistorySerum, HistoryValhalla}

RECURSIVE Flatten(_)
Flatten(parts) == IF parts = <<>> THEN <<>> ELSE Head(parts) \o Flatten(Tail(parts))

ExtractInit ==
    /\ xPc = "decoding"
    /\ xParts = <<>>
    /\ xResult = [threw |-> FALSE, plugins |-> <<>>]

\* the decode step delivers the next part of the document
DecodedPart ==
    /\ xPc = "decoding"
    /\ Len(xParts) < MaxParts
    /\ \E part \in DocumentParts : xParts' = Append(xParts, part)
    /\ UNCHANGED <<xResult, xPc, xOthers>>

\* const vstPlugins = this.extractVSTPlugins(xmlString)
Extract ==
    /\ xPc = "decoding"
    /\ xResult' = extractVSTPlugins(Flatten(xParts))
    /\ xPc' = "extracted"
    /\ UNCHANGED <<xParts, xOthers>>

----------------------------------------------------------------------------
(* Project parsing: ableton-scanner.js, parseProject / extractProjectName *)

\* xmlString.match(/<Tag[^>]*Attr="([^"]*)"[^>]*>/): the capture of the first
\* tag that matches, "" when none does or when the capture is empty
FirstAttribute(tags, tagName, attr, ending) ==
    LET hit == [j \in 1..Len(tags) |->
                    AttributeOf(tags[j], tagName, attr, ending).matched]
        k   == FirstFrom(hit, 1)
    IN  IF k = 0 THEN "" ELSE AttributeOf(tags[k], tagName, attr, ending).value

\* null is "" here: the caller only tests the result for truth
extractProjectName(tags) ==
    IF FirstAttribute(tags, "LiveSet", "Name", ">") # ""
    THEN FirstAttribute(tags, "LiveSet", "Name", ">")
    ELSE FirstAttribute(tags, "Title", "Value", "/>")

\* path.basename(alsFilePath, '.als')
basenameWithout(p, ext) ==
    LET b == basename(p)
    IN  IF Len(b) > Len(ext) /\ LitAt(b, Len(b) - Len(ext) + 1, ext)
        THEN SubSeq(b, 1, Len(b) - Len(ext))
        ELSE b

\* parseProject(alsFilePath): file = [filePath, content, parts, mtime],
\* content telling whether readFile and gunzip succeed; the catch block
\* turns their errors, and the ReferenceError of extractVSTPlugins, into
\* the result null
parseProject(file) ==
    LET tags        == Flatten(file.parts)
        projectName == IF extractProjectName(tags) # ""
                       THEN extractProjectName(tags)
                       ELSE basenameWithout(file.filePath, ".als")
        vstPlugins  == extractVSTPlugins(tags)
    IN  IF file.content # "gzip" \/ vstPlugins.threw
        THEN [isNull |-> TRUE, project |-> <<>>]
        ELSE [isNull  |-> FALSE,
              project |-> [name         |-> projectName,
                           filePath     |-> file.filePath,
                           fileName     |-> basename(file.filePath),
                           vstPlugins   |-> vstPlugins.plugins,
                           lastModified |-> file.mtime]]

----------------------------------------------------------------------------
(* Usage linking: renderer.js, Database.linkProjectsToPlugins             *)

\* plugins.find(dbPlugin => dbPlugin.name.toLowerCase() ===
\*                          abletonPluginName.toLowerCase()): index or 0
FindPlugin(plugins, abletonPluginName) ==
    LET hit(i) == toLowerCase(plugins[i].name) = toLowerCase(abletonPluginName)
    IN  IF \E i \in 1..Len(plugins) : hit(i)
        THEN CHOOSE i \in 1..Len(plugins) : hit(i) /\ \A j \in 1..(i - 1) : ~hit(j)
        ELSE 0

\* the key under which the usage of a matched plugin is kept
UsageKey(plugin) == plugin.id

UsageEntry(project) ==
    [projectName  |-> project.name,
     projectFile  |-> project.fileName,
     lastModified |-> project.lastModified]

\* project.vstPlugins.forEach(...): names k.. of one project
RECURSIVE LinkNames(_, _, _, _)
LinkNames(pluginUsage, project, plugins, k) ==
    IF k > Len(project.vstPlugins) THEN pluginUsage
    ELSE LET m == FindPlugin(plugins, project.vstPlugins[k])
         IN  LinkNames(IF m = 0 THEN pluginUsage
                       ELSE [pluginUsage EXCEPT ![UsageKey(plugins[m])] =
                                 Append(@, UsageEntry(project))],
                       project, plugins, k + 1)

\* projects.forEach(...)
RECURSIVE LinkProjects(_, _, _, _)
LinkProjects(pluginUsage, projects, plugins, k) ==
    IF k > Len(projects) THEN pluginUsage
    ELSE LinkProjects(LinkNames(pluginUsage, projects[k], plugins, 1),
                      projects, plugins, k + 1)

\* the linking that starts from the usage a plugin already carries
linkProjectsToPlugins_Accumulating(projects, plugins) ==
    LET carried(key) ==
            LET i == CHOOSE i \in 1..Len(plugins) : UsageKey(plugins[i]) = key
            IN  IF "projectUsage" \in DOMAIN plugins[i]
                THEN plugins[i].projectUsage ELSE <<>>
        start       == [key \in {UsageKey(plugins[i]) : i \in 1..Len(plugins)} |->
                           carried(key)]
        pluginUsage == LinkProjects(start, projects, plugins, 1)
    IN  [i \in 1..Len(plugins) |->
            [projectUsage |-> pluginUsage[UsageKey(plugins[i])]] @@ plugins[i]]

linkProjectsToPlugins(projects, plugins) ==
    LET empty       == [key \in {UsageKey(plugins[i]) : i \in 1..Len(plugins)} |-> <<>>]
        pluginUsage == LinkProjects(empty, projects, plugins, 1)
    IN  [i \in 1..Len(plugins) |->
            [projectUsage |-> pluginUsage[UsageKey(plugins[i])]] @@ plugins[i]]

\* more parts of project documents
DeviceMassive ==
    <<"<PluginDevice Id=\"6\">", "<VstPluginInfo Id=\"0\">",
      "<FileName Value=\"massive.vst\" />", "</VstPluginInfo>",
      "</PluginDevice>">>

DeviceOzone ==
    <<"<PluginDevice Id=\"7\">", "<VstPluginInfo Id=\"0\">",
      "<FileName Value=\"Ozone 9.vst\" />", "</VstPluginInfo>",
      "</PluginDevice>">>

LiveSetNamed == <<"<LiveSet Name=\"Intrigue\">">>

\* the project files (decoded) of the projects directory
ProjectFiles ==
    {[filePath |-> "/Users/mixy/Projects/Beacon/Beacon.als", content |-> "gzip",
      parts |-> <<LiveSetNamed, DeviceSerum, DeviceOzone>>, mtime |-> 5],
     [filePath |-> "/Users/mixy/Projects/Stems.als", content |-> "gzip",
      parts |-> <<DeviceMassive, DeviceProQ>>, mtime |-> 7],
     [filePath |-> "/Users/mixy/Projects/Helix Jam.als", content |-> "gzip",
      parts |-> <<DeviceHelix, DeviceSerum>>, mtime |-> 8],
     [filePath |-> "/Users/mixy/Projects/Locked.als", content |-> "unreadable",
      parts |-> <<>>, mtime |-> 6],
     [filePath |-> "/Users/mixy/Projects/Notes.als", content |-> "plain",
      parts |-> <<>>, mtime |-> 9]}

LinkInit ==
    /\ lPc = "loading"
    /\ lProjects = <<>>
    /\ pluginsWithUsage = <<>>
    /\ lFirst = <<>>
    /\ lCalls = 0

\* one more project file is parsed; a file that parses to null is skipped
ParsedProject ==
    /\ lPc = "loading"
    /\ sPc = "consolidated"
    /\ Len(lProjects) < MaxProjects
    /\ \E file \in ProjectFiles :
          /\ \A i \in 1..Len(lProjects) : lProjects[i].filePath # file.filePath
          /\ ~parseProject(file).isNull
          /\ lProjects' = Append(lProjects, parseProject(file).project)
    /\ UNCHANGED <<pluginsWithUsage, lPc, lFirst, lCalls, lOthers>>

\* linkProjectsToPlugins(projects, plugins) on the consolidated inventory
Link ==
    /\ lPc = "loading"
    /\ sPc = "consolidated"
    /\ pluginsWithUsage' = linkProjectsToPlugins(lProjects, consolidatedPlugins)
    /\ lFirst' = pluginsWithUsage'
    /\ lCalls' = 1
    /\ lPc' = "linked"
    /\ UNCHANGED <<lProjects, lOthers>>

\* linkProjectsToPlugins called again on the same projects, with the
\* inventory or with the plugins an earlier call returned
Relink ==
    /\ lPc = "linked"
    /\ lCalls < MaxCalls
    /\ \E plugins \in {consolidatedPlugins, pluginsWithUsage} :
          pluginsWithUsage' = linkProjectsToPlugins(lProjects, plugins)
    /\ lCalls' = lCalls + 1
    /\ UNCHANGED <<lProjects, lFirst, lPc, lOthers>>

----------------------------------------------------------------------------
(* Project scan: ableton-scanner.js, scanAllProjects                      *)

\* the body of "for (const alsFile of alsFiles)" stopping the batch at a
\* file that gives no result
ScanStep_AbortOnFailure(data, file) ==
    IF parseProject(file).isNull
    THEN [projectData |-> data, aborted |-> TRUE]
    ELSE [projectData |-> Append(data, parseProject(file).project),
          aborted     |-> FALSE]

\* the body of "for (const alsFile of alsFiles)": the project is pushed
\* when parseProject gave one; nothing leaves the try block
ScanStep(data, file) ==
    IF parseProject(file).isNull
    THEN [projectData |-> data, aborted |-> FALSE]
    ELSE [projectData |-> Append(data, parseProject(file).project),
          aborted     |-> FALSE]

\* the lists findALSFiles can return: distinct files of the directory
FileLists ==
    {l \in UNION {[1..n -> ProjectFiles] : n \in 0..MaxFiles} :
        \A i, j \in 1..Len(l) : i # j => l[i].filePath # l[j].filePath}

\* const alsFiles = await this.findALSFiles(...); const projectData = []
ProjectsInit ==
    /\ aPc = "scanning"
    /\ alsFiles \in FileLists
    /\ aNext = 1
    /\ projectData = <<>>

\* one round of the loop
ScanProjectFile ==
    /\ aPc = "scanning"
    /\ aNext <= Len(alsFiles)
    /\ LET step == ScanStep(projectData, alsFiles[aNext])
       IN  /\ projectData' = step.projectData
           /\ aPc' = IF step.aborted THEN "aborted" ELSE "scanning"
    /\ aNext' = aNext + 1
    /\ UNCHANGED <<alsFiles, aOthers>>

\* return projectData
ReturnProjects ==
    /\ aPc = "scanning"
    /\ aNext > Len(alsFiles)
    /\ aPc' = "returned"
    /\ UNCHANGED <<alsFiles, aNext, projectData, aOthers>>

----------------------------------------------------------------------------
(* Demo detection: scanner.js, detectDemoPlugin as analyzePlugin calls it *)

\* directories plugins are installed in, below the directory of a format
InstallRoots == {"", "/Library/Audio/Plug-Ins/VST3"}

InstallFolders ==
    {"", "Serum", "Kontakt 7 Player", "Demo", "Demo Plugins", "free"}

InstallNames ==
    {"Serum", "Serum Demo", "Kontakt 7", "Kontakt 7 Player", "KONTAKT 7 PLAYER",
     "Kontakt Player 6", "Sampler One", "FreeVerb", "Satellite", "Pro-Q 3"}

InstallPaths ==
    {root \o (IF folder = "" THEN "" ELSE "/" \o folder) \o "/" \o name \o ".vst3" :
        root \in InstallRoots, folder \in InstallFolders, name \in InstallNames}

DemoInit ==
    /\ dPc = "found"
    /\ dPath \in InstallPaths
    /\ dIsDemo = FALSE

\* isDemo: this.detectDemoPlugin(pluginPath, filename)
DetectDemo ==
    /\ dPc = "found"
    /\ dIsDemo' = detectDemoPlugin(dPath, basenameNoExt(dPath))
    /\ dPc' = "detected"
    /\ UNCHANGED <<dPath, dOthers>>

----------------------------------------------------------------------------
(* Metadata matcher: metadata.js, PluginMetadata                          *)

\* name.toLowerCase().trim().replace(/[^a-z0-9]/g, '').replace(/\s+/g, '')
RECURSIVE DropNonAlnum(_)
DropNonAlnum(s) ==
    IF s = "" THEN ""
    ELSE LET c == Head(s)
         IN  (IF IsLower(c) \/ IsDigit(c) THEN c ELSE "") \o DropNonAlnum(Tail(s))

Metadata_normalizePluginName(name) == DropNonAlnum(trim(toLowerCase(name)))

isFuzzyMatch_NoMinimum(name1, name2) ==
    LET minLength == Min(Len(name1), Len(name2))
        prefix    == IF minLength >= 6 THEN 6 ELSE minLength
    IN  substring0(name1, prefix) = substring0(name2, prefix)

isFuzzyMatch(name1, name2) ==
    LET minLength == Min(Len(name1), Len(name2))
        prefix    == IF minLength >= 6 THEN 6 ELSE minLength
    IN  IF minLength < 3 THEN FALSE
        ELSE substring0(name1, prefix) = substring0(name2, prefix)

\* what a lookup returns when it returns null
\* the fields of a catalog entry the program reads, all undefined
NoFields ==
    [key |-> Null, name |-> Null, vendor |-> Null, description |-> Null,
     category |-> Null, subcategory |-> Null, tags |-> Null, website |-> Null,
     logoUrl |-> Null, screenshotUrl |-> Null, price |-> Null,
     popularity |-> Null, releaseYear |-> Null]

NoMeta == NoFields

\* Object.prototype.constructor, which every object literal inherits: a
\* function whose name is "Object" and which has no vendor
ObjectFunction == [NoFields EXCEPT !.key = "constructor", !.name = "Object"]

\* index of the own property key of plugins (in Object.entries order), or 0
KeyIndex(plugins, key) ==
    IF \E i \in 1..Len(plugins) : plugins[i].key = key
    THEN CHOOSE i \in 1..Len(plugins) : plugins[i].key = key
    ELSE 0

\* this.metadata.plugins[normalizedName]: own properties first, then the
\* prototype chain; undefined is NoMeta
PropertyOf(plugins, normalizedName) ==
    IF KeyIndex(plugins, normalizedName) > 0
    THEN plugins[KeyIndex(plugins, normalizedName)]
    ELSE IF normalizedName = "constructor" THEN ObjectFunction
    ELSE NoMeta

\* the condition of the loop of strategy 2 for one entry
FuzzyAccepts(normalizedName, entry) ==
    \/ isFuzzyMatch(normalizedName, entry.key)
    \/ /\ entry.name # Null
       /\ isFuzzyMatch(normalizedName, Metadata_normalizePluginName(entry.name))

\* the condition of strategy 2 throws for the entry: its key is no fuzzy
\* match, so this.normalizePluginName(meta.name) is evaluated, and
\* meta.name is undefined (TypeError of undefined.toLowerCase())
FuzzyThrows(normalizedName, entry) ==
    /\ ~isFuzzyMatch(normalizedName, entry.key)
    /\ entry.name = Null

VendorAccepts_AnyVendor(normalizedName, normalizedVendor, entry) ==
    /\ entry.name # Null
    /\ includes(normalizedName,
             substring0(Metadata_normalizePluginName(entry.name), 4))

\* the condition of the loop of strategy 3 for one entry
VendorAccepts(normalizedName, normalizedVendor, entry) ==
    /\ entry.vendor # Null
    /\ includes(toLowerCase(entry.vendor), normalizedVendor)
    /\ entry.name # Null
    /\ includes(normalizedName,
                substring0(Metadata_normalizePluginName(entry.name), 4))

\* index of the first entry of plugins for which accepted holds, or 0
FirstAccepted(accepted) == FirstFrom(accepted, 1)

\* the lookup with the loop of strategy 2 ahead of strategy 1
findPluginMetadata_FuzzyFirst(md, plugin) ==
    IF ~md.loaded THEN [returned |-> "unloaded", meta |-> NoMeta]
    ELSE LET normalizedName   == Metadata_normalizePluginName(plugin.name)
             normalizedVendor == toLowerCase(plugin.vendor)
             fuzzy  == FirstAccepted([i \in 1..Len(md.plugins) |->
                           FuzzyAccepts(normalizedName, md.plugins[i])])
             vendor == FirstAccepted([i \in 1..Len(md.plugins) |->
                           VendorAccepts(normalizedName, normalizedVendor,
                                         md.plugins[i])])
         IN  IF fuzzy > 0
             THEN [returned |-> "fuzzy", meta |-> md.plugins[fuzzy]]
             ELSE IF PropertyOf(md.plugins, normalizedName) # NoMeta
             THEN [returned |-> "exact",
                   meta |-> PropertyOf(md.plugins, normalizedName)]
             ELSE IF plugin.vendor # "" /\ vendor > 0
             THEN [returned |-> "vendor", meta |-> md.plugins[vendor]]
             ELSE [returned |-> "none", meta |-> NoMeta]

\* findPluginMetadata(plugin) with this.metadata = md; returned tells which
\* return statement was taken, "threw" that the call ended in a TypeError
findPluginMetadata(md, plugin) ==
    IF ~md.loaded THEN [returned |-> "unloaded", meta |-> NoMeta]
    ELSE LET normalizedName   == Metadata_normalizePluginName(plugin.name)
             normalizedVendor == toLowerCase(plugin.vendor)
             fuzzy  == FirstAccepted([i \in 1..Len(md.plugins) |->
                           FuzzyAccepts(normalizedName, md.plugins[i])])
             vendor == FirstAccepted([i \in 1..Len(md.plugins) |->
                           VendorAccepts(normalizedName, normalizedVendor,
                                         md.plugins[i])])
             stop   == FirstAccepted([i \in 1..Len(md.plugins) |->
                           \/ FuzzyAccepts(normalizedName, md.plugins[i])
                           \/ FuzzyThrows(normalizedName, md.plugins[i])])
         IN  IF PropertyOf(md.plugins, normalizedName) # NoMeta
             THEN [returned |-> "exact",
                   meta |-> PropertyOf(md.plugins, normalizedName)]
             ELSE IF stop > 0 /\ FuzzyThrows(normalizedName, md.plugins[stop])
             THEN [returned |-> "threw", meta |-> NoMeta]
             ELSE IF fuzzy > 0
             THEN [returned |-> "fuzzy", meta |-> md.plugins[fuzzy]]
             ELSE IF plugin.vendor # "" /\ vendor > 0
             THEN [returned |-> "vendor", meta |-> md.plugins[vendor]]
             ELSE [returned |-> "none", meta |-> NoMeta]

\* name.match(/(a|b|c)/) of the classifier: one of the keywords occurs
MatchesAny(name, keywords) ==
    \E k \in 1..Len(keywords) : includes(name, keywords[k])

\* guessSynthSubcategory(name)
guessSynthSubcategory(name) ==
    IF MatchesAny(name, <<"wave", "serum", "massive">>) THEN "Wavetable"
    ELSE IF MatchesAny(name, <<"fm", "operator", "dx">>) THEN "FM"
    ELSE IF MatchesAny(name, <<"analog", "sub", "acid", "bass">>) THEN "Analog"
    ELSE IF MatchesAny(name, <<"piano", "keys", "wurli", "rhodes">>) THEN "Keys/Piano"
    ELSE IF MatchesAny(name, <<"drum", "percussion">>) THEN "Drum"
    ELSE "Subtractive"

\* the keyword buckets of the classifier, in the order of its if statements
CategoryBuckets ==
    <<[keywords |-> <<"synth", "serum", "massive", "operator", "analog", "fm",
                      "bass", "lead", "pad", "osc", "wave", "sub", "acid">>,
       category |-> "Synthesizer", subcategory |-> "<synth>"],
      [keywords |-> <<"eq", "equalizer", "pro-q", "fabfilter", "frequency",
                      "spectrum">>,
       category |-> "Effect", subcategory |-> "EQ"],
      [keywords |-> <<"reverb", "delay", "echo", "space", "hall", "room",
                      "plate", "spring", "valhalla">>,
       category |-> "Effect", subcategory |-> "Reverb/Delay"],
      [keywords |-> <<"compressor", "limiter", "gate", "expander", "dynamics",
                      "pro-c", "pro-l">>,
       category |-> "Effect", subcategory |-> "Dynamics"],
      [keywords |-> <<"distortion", "overdrive", "saturator", "tube", "vintage",
                      "warmth", "drive">>,
       category |-> "Effect", subcategory |-> "Distortion/Saturation"],
      [keywords |-> <<"chorus", "flanger", "phaser", "tremolo", "vibrato",
                      "modulation">>,
       category |-> "Effect", subcategory |-> "Modulation"],
      [keywords |-> <<"kontakt", "sampler", "player", "battery", "maschine",
                      "machine">>,
       category |-> "Sampler", subcategory |-> "Advanced Sampler"],
      [keywords |-> <<"drum", "beat", "rhythm", "kick", "snare", "hat",
                      "percussion", "battery">>,
       category |-> "Drums", subcategory |-> "Drum Machine"],
      [keywords |-> <<"piano", "keys", "wurli", "rhodes", "electric", "organ",
                      "vintage">>,
       category |-> "Synthesizer", subcategory |-> "Keys/Piano"],
      [keywords |-> <<"guitar", "bass", "amp", "cab", "rig", "amplitube">>,
       category |-> "Effect", subcategory |-> "Guitar/Bass"],
      [keywords |-> <<"ozone", "master", "mixing", "suite", "pro", "bundle">>,
       category |-> "Effect", subcategory |-> "Mastering Suite"],
      [keywords |-> <<"analyzer", "meter", "spectrum", "tuner", "utility",
                      "tool">>,
       category |-> "Utility", subcategory |-> "Analysis"]>>

\* the cascade over buckets k.. : the first bucket with a keyword in name
RECURSIVE FirstBucket(_, _, _)
FirstBucket(buckets, name, k) ==
    IF k > Len(buckets) THEN [category |-> "Other", subcategory |-> Null]
    ELSE IF MatchesAny(name, buckets[k].keywords)
    THEN [category    |-> buckets[k].category,
          subcategory |-> IF buckets[k].subcategory = "<synth>"
                          THEN guessSynthSubcategory(name)
                          ELSE buckets[k].subcategory]
    ELSE FirstBucket(buckets, name, k + 1)

\* the cascade with the guitar/bass bucket tried before the sampler bucket
Bulk_guessCategory_GuitarBeforeSampler(pluginName) ==
    LET order == <<1, 2, 3, 4, 5, 6, 10, 7, 8, 9, 11, 12>>
    IN  FirstBucket([k \in 1..Len(order) |-> CategoryBuckets[order[k]]],
                    toLowerCase(pluginName), 1)

\* guessCategory(pluginName, vendor) of scripts/bulk-metadata-creator.js
Bulk_guessCategory(pluginName) ==
    FirstBucket(CategoryBuckets, toLowerCase(pluginName), 1)

\* generateDescription({name, vendor, category, subcategory})
generateDescription(vendor, category, subcategory) ==
    LET by == IF vendor # "" THEN "By " \o vendor \o "." ELSE ""
    IN  IF subcategory = "Wavetable"
        THEN "Wavetable synthesizer with advanced modulation capabilities. " \o by
        ELSE IF subcategory = "EQ"
        THEN "Professional equalizer plugin for precise frequency shaping and mixing. " \o by
        ELSE IF subcategory = "Reverb/Delay"
        THEN "High-quality reverb and delay effects for spatial audio processing. " \o by
        ELSE IF subcategory = "Keys/Piano"
        THEN "Authentic piano and keyboard emulation with vintage character. " \o by
        ELSE IF subcategory = "Guitar/Bass"
        THEN "Guitar and bass amplifier/effects simulation for realistic tones. " \o by
        ELSE IF subcategory = "Advanced Sampler"
        THEN "Professional sampling instrument and library host. " \o by
        ELSE IF category = "Effect"
        THEN "Audio effect processor for creative and corrective audio processing. " \o by
        ELSE trim(category \o " " \o (IF vendor # "" THEN "by " \o vendor ELSE "")
                      \o " for professional music production.")

\* generateTags({name, category, subcategory, isDemo}) with isDemo unset
generateTags(pluginName, category, subcategory) ==
    LET name == toLowerCase(pluginName)
        tags ==
            (IF category = "Synthesizer"
             THEN <<"synthesizer", "synth">>
                      \o (IF subcategory = "Wavetable"
                          THEN <<"wavetable", "electronic">> ELSE <<>>)
                      \o (IF subcategory = "Analog"
                          THEN <<"analog", "vintage">> ELSE <<>>)
             ELSE <<>>)
            \o (IF category = "Effect"
                THEN <<"effect", "processing">>
                         \o (IF subcategory = "EQ"
                             THEN <<"equalizer", "mixing">> ELSE <<>>)
                         \o (IF subcategory = "Reverb/Delay"
                             THEN <<"reverb", "delay", "spatial">> ELSE <<>>)
                ELSE <<>>)
            \o (IF MatchesAny(name, <<"bass", "sub", "dubstep">>)
                THEN <<"bass", "electronic">> ELSE <<>>)
            \o (IF MatchesAny(name, <<"vintage", "retro", "analog">>)
                THEN <<"vintage", "retro">> ELSE <<>>)
            \o (IF MatchesAny(name, <<"free", "lite">>) THEN <<"free">> ELSE <<>>)
    IN  Unique(tags)

\* an entry as scripts/bulk-metadata-creator.js writes it: stored under the
\* normalized name, with the name and a vendor ('Unknown' without one)
CatalogEntry(name, vendor) ==
    LET categoryInfo == Bulk_guessCategory(name)
    IN  [key           |-> Metadata_normalizePluginName(name),
         name          |-> name,
         vendor        |-> IF vendor = "" THEN "Unknown" ELSE vendor,
         category      |-> categoryInfo.category,
         subcategory   |-> categoryInfo.subcategory,
         description   |-> generateDescription(vendor, categoryInfo.category,
                                                categoryInfo.subcategory),
         tags          |-> generateTags(name, categoryInfo.category,
                                         categoryInfo.subcategory),
         website       |-> Null,
         logoUrl       |-> Null,
         screenshotUrl |-> Null,
         price         |-> "unknown",
         popularity    |-> 0,
         releaseYear   |-> Null]

\* an entry written by hand under its normalized name, with a description
\* and a price but neither category nor tags
HandWrittenEntry(name, vendor) ==
    [NoFields EXCEPT !.key = Metadata_normalizePluginName(name),
                     !.name = name,
                     !.vendor = vendor,
                     !.description = "Equalizer with dynamic bands",
                     !.price = "paid",
                     !.releaseYear = 2018]

CuratedEntries ==
    {CatalogEntry("Serum", "Xfer Records"),
     CatalogEntry("SerumFX", "Xfer Records"),
     HandWrittenEntry("Pro-Q 3", "FabFilter"),
     CatalogEntry("EQ", "")}

\* an entry with the curated fields only, under its key: no name, and a
\* vendor or none (Null)
NamelessEntry(key, vendor) ==
    [NoFields EXCEPT !.key = key,
                     !.vendor = vendor,
                     !.description = "Curated entry",
                     !.category = "Effect",
                     !.subcategory = "EQ",
                     !.tags = <<"eq">>,
                     !.price = "paid",
                     !.popularity = 5,
                     !.releaseYear = 2018]

\* the entries of a catalog some of whose entries have no name
SparseEntries ==
    {CatalogEntry("Serum", "Xfer Records"),
     HandWrittenEntry("SerumFX", Null),
     NamelessEntry("proq3", "FabFilter"),
     NamelessEntry("massive", Null)}

SparseCatalogs ==
    {c \in UNION {[1..n -> SparseEntries] : n \in 0..MaxCatalog} :
        \A i, j \in 1..Len(c) : i # j => c[i].key # c[j].key}

\* the catalogs of at most MaxCatalog entries, in every order of their keys
Catalogs ==
    {c \in UNION {[1..n -> CuratedEntries] : n \in 0..MaxCatalog} :
        \A i, j \in 1..Len(c) : i # j => c[i].key # c[j].key}

\* a JavaScript value that counts as false in a condition
Falsy(v) == v = Null \/ v = ""

\* enrichPlugin(plugin) with this.metadata = md
enrichPlugin(md, plugin) ==
    LET metadata_ == findPluginMetadata(md, plugin).meta
    IN  IF metadata_ # NoMeta
        THEN [description   |-> metadata_.description,
              category      |-> IF Falsy(metadata_.category)
                                THEN plugin.category ELSE metadata_.category,
              subcategory   |-> metadata_.subcategory,
              tags          |-> IF metadata_.tags = Null
                                THEN <<>> ELSE metadata_.tags,
              website       |-> metadata_.website,
              logoUrl       |-> metadata_.logoUrl,
              screenshotUrl |-> metadata_.screenshotUrl,
              price         |-> metadata_.price,
              popularity    |-> metadata_.popularity,
              releaseYear   |-> metadata_.releaseYear,
              hasMetadata   |-> TRUE] @@ plugin
        ELSE [hasMetadata |-> FALSE, needsMetadata |-> TRUE] @@ plugin

\* before the first call of enrichPlugin
NotEnriched == [called |-> FALSE, loaded |-> FALSE]

\* the plugins that are looked up: a display name and a vendor ("" is none)
LookedUpNames ==
    {"Serum", "SerumFX Demo", "Serum Presets", "EQ3", "FF Pro-Q 3", "Constructor"}

LookedUpVendors == {"", "FabFilter", "xfer"}

\* constructor(): this.metadata = null, loadMetadata() is started
MatchInit ==
    /\ mPc = "constructed"
    /\ catalogFile \in [readable : BOOLEAN, plugins : Catalogs]
    /\ metadata = [loaded |-> FALSE, plugins |-> <<>>]
    /\ mPlugin = [name |-> "", vendor |-> ""]
    /\ mResult = [returned |-> "unloaded", meta |-> NoMeta]
    /\ mEnriched = NotEnriched

\* constructor() next to a catalog some of whose entries have no name
LookupInit ==
    /\ mPc = "constructed"
    /\ catalogFile \in [readable : BOOLEAN, plugins : SparseCatalogs]
    /\ metadata = [loaded |-> FALSE, plugins |-> <<>>]
    /\ mPlugin = [name |-> "", vendor |-> ""]
    /\ mResult = [returned |-> "unloaded", meta |-> NoMeta]
    /\ mEnriched = NotEnriched

\* loadMetadata() after the read: the parsed document
LoadMetadata ==
    /\ mPc = "constructed"
    /\ catalogFile.readable
    /\ metadata' = [loaded |-> TRUE, plugins |-> catalogFile.plugins]
    /\ mPc' = "loaded"
    /\ UNCHANGED <<catalogFile, mPlugin, mResult, mEnriched, mOthers>>

\* loadMetadata() when the read fails: the empty database
LoadMetadataFailed ==
    /\ mPc = "constructed"
    /\ ~catalogFile.readable
    /\ metadata' = [loaded |-> TRUE, plugins |-> <<>>]
    /\ mPc' = "loaded"
    /\ UNCHANGED <<catalogFile, mPlugin, mResult, mEnriched, mOthers>>

\* a call of findPluginMetadata(plugin), before or after the load
FindPluginMetadata ==
    /\ mPc \in {"constructed", "loaded"}
    /\ \E name \in LookedUpNames, vendor \in LookedUpVendors :
          /\ mPlugin' = [name |-> name, vendor |-> vendor]
          /\ mResult' = findPluginMetadata(metadata, mPlugin')
    /\ UNCHANGED <<catalogFile, metadata, mPc, mEnriched, mOthers>>

\* a call of enrichPlugin(plugin), before or after the load; the plugin
\* carries the category the scanner guessed for it
EnrichPlugin ==
    /\ mPc \in {"constructed", "loaded"}
    /\ \E name \in LookedUpNames, vendor \in LookedUpVendors :
          LET plugin == [name |-> name, vendor |-> vendor,
                         category |-> guessCategory(name)]
          IN  mEnriched' = [called |-> TRUE, loaded |-> metadata.loaded,
                            plugin |-> plugin,
                            result |-> enrichPlugin(metadata, plugin)]
    /\ UNCHANGED <<catalogFile, metadata, mPlugin, mResult, mPc, mOthers>>

----------------------------------------------------------------------------
(* Display names the normalizer is applied to *)

\* pieces of display names as the scanner and its users write them
NameSegs ==
    {"UAD ", "iZotope ", "Serum", "Pro-Q 3", " (VST3)", " [Bundle]", "(", " "}

\* all concatenations of at most n segments
RECURSIVE NamesOf(_)
NamesOf(n) ==
    IF n = 0 THEN {""}
    ELSE NamesOf(n - 1) \cup {a \o b : a \in NamesOf(n - 1), b \in NameSegs}

\* packaging annotations as the scanner prints them after a name
PackagingAnnotations == {" (VST3)", " (VST)", " (AU)", " [Bundle]", " [File]"}

\* the known vendor prefix a name starts with, "" when it has none
KnownPrefixOf(s) ==
    LET hit(k) == /\ LitAtNoCase(s, 1, VendorPrefixes[k])
                  /\ Len(s) > Len(VendorPrefixes[k])
                  /\ IsSpace(Char(s, Len(VendorPrefixes[k]) + 1))
    IN  IF \E k \in 1..Len(VendorPrefixes) : hit(k)
        THEN SubSeq(s, 1, Len(VendorPrefixes[CHOOSE k \in 1..Len(VendorPrefixes) : hit(k)]) + 1)
        ELSE ""

NormInit ==
    /\ nPc = "start"
    /\ nName \in NamesOf(MaxSegs)
    /\ nVariant = ""
    /\ nKey = ""
    /\ nKey2 = ""
    /\ nVariantKey = ""

\* key = normalizePluginName(plugin.name)
Normalize ==
    /\ nPc = "start"
    /\ nKey' = normalizePluginName(nName)
    /\ nPc' = "keyed"
    /\ UNCHANGED <<nName, nVariant, nKey2, nVariantKey, nOthers>>

\* the normalizer applied to its own result
NormalizeAgain ==
    /\ nPc = "keyed"
    /\ nKey2' = normalizePluginName(nKey)
    /\ nPc' = "rekeyed"
    /\ UNCHANGED <<nName, nVariant, nKey, nVariantKey, nOthers>>

\* the normalizer applied to the same name carrying a packaging annotation
NormalizeAnnotated ==
    /\ nPc = "rekeyed"
    /\ \E a \in PackagingAnnotations :
          /\ nVariant' = nName \o a
          /\ nVariantKey' = normalizePluginName(nName \o a)
    /\ nPc' = "varied"
    /\ UNCHANGED <<nName, nKey, nKey2, nOthers>>

\* the normalizer applied to the same name with its vendor prefix doubled
NormalizePrefixed ==
    /\ nPc = "rekeyed"
    /\ KnownPrefixOf(nName) # ""
    /\ nVariant' = KnownPrefixOf(nName) \o nName
    /\ nVariantKey' = normalizePluginName(KnownPrefixOf(nName) \o nName)
    /\ nPc' = "varied"
    /\ UNCHANGED <<nName, nKey, nKey2, nOthers>>

\* the normalizer applied to the same name in another letter casing
NormalizeRecased ==
    /\ nPc = "rekeyed"
    /\ \E v \in {toLowerCase(nName), toUpperCase(nName)} :
          /\ nVariant' = v
          /\ nVariantKey' = normalizePluginName(v)
    /\ nPc' = "varied"
    /\ UNCHANGED <<nName, nKey, nKey2, nOthers>>

----------------------------------------------------------------------------
(* Classification of a bulk list: bulk-metadata-creator.js, processBulkList *)

\* the words the names of the bulk list are made of
ClassifiedWords ==
    <<"Lead", "Guitar", "Player", "Kick", "Organ", "Suite", "Meter", "Chorus",
      "Zebra">>

RECURSIVE JoinWords(_)
JoinWords(words) ==
    IF words = <<>> THEN ""
    ELSE IF Len(words) = 1 THEN words[1]
    ELSE words[1] \o " " \o JoinWords(Tail(words))

\* the names of one to MaxWords different words
ClassifiedNames ==
    UNION {{JoinWords([i \in 1..n |-> ClassifiedWords[f[i]]]) :
               f \in {g \in [1..n -> 1..Len(ClassifiedWords)] :
                         \A i, j \in 1..n : i # j => g[i] # g[j]}} :
           n \in 1..MaxWords}

NoCategory == [category |-> "", subcategory |-> ""]

ClassifyInit ==
    /\ cPc = "named"
    /\ cName \in ClassifiedNames
    /\ cResult = NoCategory

\* const categoryInfo = this.guessCategory(plugin.name, plugin.vendor)
Classify ==
    /\ cPc = "named"
    /\ cResult' = Bulk_guessCategory(cName)
    /\ cPc' = "classified"
    /\ UNCHANGED <<cName, cOthers>>

----------------------------------------------------------------------------
(* Consolidation of a given list: scanner.js, consolidatePlugins(plugins)  *)

\* the display names of the given installations
RawNames ==
    {"Serum_x64", "Serum (VST3)", "Serum", "Serum X64", "SERUM 2", "Massive"}

\* their formats and paths
RawFiles ==
    {[format |-> "VST",  path |-> "/p/Serum.dll"],
     [format |-> "VST3", path |-> "/p/Serum.vst3"],
     [format |-> "AU",   path |-> "/p/Serum.component"]}

\* a plugin record as analyzePlugin builds it, under a given display name
RawInstallation(name, file, t) ==
    [analyzePlugin([path |-> file.path, size |-> 1, mtime |-> t,
                    isDirectory |-> FALSE], file.format, t)
        EXCEPT !.name = name]

\* the lists of at most MaxRaw installations of different files
RawLists ==
    UNION {{[i \in 1..n |-> RawInstallation(names[i], files[i], i)] :
               names \in [1..n -> RawNames],
               files \in {g \in [1..n -> RawFiles] :
                             \A i, j \in 1..n : i # j => g[i] # g[j]}} :
           n \in 0..MaxRaw}

RawInit ==
    /\ rPc = "given"
    /\ rawInstallations \in RawLists
    /\ rConsolidated = <<>>

\* consolidatePlugins(plugins) called on the given list
ConsolidateRaw ==
    /\ rPc = "given"
    /\ rConsolidated' = consolidatePlugins(rawInstallations)
    /\ rPc' = "consolidated"
    /\ UNCHANGED <<rawInstallations, rOthers>>

----------------------------------------------------------------------------
(* Parsing one project file: ableton-scanner.js, parseProject             *)

\* the tags a document may name the project with
LiveSetPlain == <<"<LiveSet>">>

LiveSetEmptyName == <<"<LiveSet Name=\"\">">>

TitleNamed == <<"<Title Value=\"Beacon Mix\" />">>

TitleEmpty == <<"<Title Value=\"\" />">>

LiveSetParts == {LiveSetNamed, LiveSetPlain, LiveSetEmptyName}

TitleParts == {TitleNamed, TitleEmpty}

\* the documents: at most one LiveSet root, then at most one Title, then at
\* most MaxDevices plugin devices
ParsedDocuments ==
    {root \o title \o devices :
        root \in {<<>>} \cup {<<p>> : p \in LiveSetParts},
        title \in {<<>>} \cup {<<p>> : p \in TitleParts},
        devices \in UNION {[1..n -> {DeviceSerum, DeviceHelix}] : n \in 0..MaxDevices}}

\* the paths findALSFiles returns: entries whose lower-cased name ends in .als
ParsedPaths ==
    {"/Users/mixy/Projects/Beacon/Beacon.als", "/Users/mixy/Projects/Stems.als",
     "/Users/mixy/Projects/LIVE SET.ALS", "/Users/mixy/Projects/.als"}

ParseInit ==
    /\ pPc = "found"
    /\ pFile \in {[filePath |-> path, content |-> "gzip", parts |-> doc, mtime |-> 5] :
                     path \in ParsedPaths, doc \in ParsedDocuments}
    /\ pResult = <<>>

\* const project = await this.parseProject(alsFile)
ParseProject ==
    /\ pPc = "found"
    /\ pResult' = parseProject(pFile)
    /\ pPc' = "parsed"
    /\ UNCHANGED <<pFile, pOthers>>

----------------------------------------------------------------------------
(* Scan of one plugin type: scanner.js, scanPluginType / scanDirectory    *)
(* A directory is [path, status, entries]: status is "ok" or the code of  *)
(* the error fs.access or fs.readdir fails with. An entry is a            *)
(* subdirectory (kind "dir", with its own status and entries), a bundle   *)
(* or file, whose stat tells whether fs.stat succeeds on it.              *)

DirectoryStatuses == {"ok", "ENOENT", "EACCES", "EIO"}

\* the entries of the directories of the VST3 type; sub is the status of
\* the one subdirectory
EntriesOf(path, sub) ==
    IF path = "/Library/Audio/Plug-Ins/VST3"
    THEN <<[kind |-> "dir", name |-> "Serum.vst3", stat |-> "ok", size |-> 64, mtime |-> 3],
           [kind |-> "dir", name |-> "Native Instruments", status |-> sub,
            entries |-> <<[kind |-> "dir", name |-> "Kontakt 7.vst3",
                           stat |-> "ok", size |-> 64, mtime |-> 4]>>],
           [kind |-> "file", name |-> "readme.txt", stat |-> "ok", size |-> 1, mtime |-> 1],
           [kind |-> "dir", name |-> "Massive.vst3", stat |-> "ok", size |-> 64, mtime |-> 2]>>
    ELSE IF path = "/Users/mixy/Library/Audio/Plug-Ins/VST3"
    THEN <<[kind |-> "file", name |-> "Ozone 9.vst3", stat |-> "ok", size |-> 7, mtime |-> 2],
           [kind |-> "file", name |-> "Ghost.vst3", stat |-> "ENOENT", size |-> 0, mtime |-> 0]>>
    ELSE <<[kind |-> "dir", name |-> "Pro-Q 3.VST3", stat |-> "ok", size |-> 64, mtime |-> 5]>>

\* this.pluginPaths[type], and one more directory
TypePaths ==
    <<"/Library/Audio/Plug-Ins/VST3", "/Users/mixy/Library/Audio/Plug-Ins/VST3",
      "/Volumes/Studio/VST3">>

\* analyzePlugin on an entry: null (<<>>) when fs.stat fails
AnalyzeEntry(fullPath, entry, format) ==
    IF entry.stat # "ok" THEN <<>>
    ELSE <<analyzePlugin([path |-> fullPath, size |-> entry.size, mtime |-> entry.mtime,
                          isDirectory |-> entry.kind = "dir"], format, 1)>>

\* the loop over the entries with an error of a subdirectory leaving it:
\* the outer catch returns what was found before
RECURSIVE ScanEntries_SubdirectoryErrorLeaves(_, _, _, _, _, _)
ScanEntries_SubdirectoryErrorLeaves(directory, entries, k, format, extensions, plugins) ==
    IF k > Len(entries) THEN plugins
    ELSE LET entry    == entries[k]
             fullPath == directory \o "/" \o entry.name
             isPlugin == SeqIncludes(extensions, toLowerCase(extname(entry.name)))
         IN  IF isPlugin
             THEN ScanEntries_SubdirectoryErrorLeaves(directory, entries, k + 1,
                      format, extensions,
                      plugins \o AnalyzeEntry(fullPath, entry, format))
             ELSE IF entry.kind = "dir"
             THEN IF entry.status # "ok" THEN plugins
                  ELSE ScanEntries_SubdirectoryErrorLeaves(directory, entries, k + 1,
                           format, extensions,
                           plugins \o ScanEntries_SubdirectoryErrorLeaves(fullPath,
                                          entry.entries, 1, format, extensions, <<>>))
             ELSE ScanEntries_SubdirectoryErrorLeaves(directory, entries, k + 1,
                      format, extensions, plugins)

\* "for (const entry of entries)" from entry k on, plugins being what was
\* pushed so far; a subdirectory that cannot be read gives [] (the catch of
\* its own call), so nothing leaves the loop
RECURSIVE ScanEntries(_, _, _, _, _, _)
ScanEntries(directory, entries, k, format, extensions, plugins) ==
    IF k > Len(entries) THEN plugins
    ELSE LET entry    == entries[k]
             fullPath == directory \o "/" \o entry.name
             isPlugin == SeqIncludes(extensions, toLowerCase(extname(entry.name)))
         IN  IF isPlugin
             THEN ScanEntries(directory, entries, k + 1, format, extensions,
                      plugins \o AnalyzeEntry(fullPath, entry, format))
             ELSE IF entry.kind = "dir"
             THEN ScanEntries(directory, entries, k + 1, format, extensions,
                      plugins \o (IF entry.status # "ok" THEN <<>>
                                  ELSE ScanEntries(fullPath, entry.entries, 1,
                                                   format, extensions, <<>>)))
             ELSE ScanEntries(directory, entries, k + 1, format, extensions, plugins)

\* scanDirectory(directory, format, extensions): every error is caught and
\* the plugins pushed so far are returned
scanDirectory(dir, format, extensions) ==
    IF dir.status # "ok"
    THEN [threw |-> FALSE, plugins |-> <<>>]
    ELSE [threw   |-> FALSE,
          plugins |-> ScanEntries(dir.path, dir.entries, 1, format, extensions, <<>>)]

\* const plugins = []; const paths = this.pluginPaths[type] || []
TypeScanInit ==
    /\ tPc = "scanning"
    /\ \E n \in 0..MaxDirs, sub \in DirectoryStatuses :
          \E st \in [1..n -> DirectoryStatuses] :
              /\ n <= Len(TypePaths)
              /\ tDirs = [i \in 1..n |->
                            [path    |-> TypePaths[i],
                             status  |-> st[i],
                             entries |-> EntriesOf(TypePaths[i], sub)]]
    /\ tNext = 1
    /\ tPlugins = <<>>
    /\ tThrew = FALSE

\* one round of "for (const pluginPath of paths)": a directory whose scan
\* throws is skipped by the catch block
ScanPluginPath ==
    /\ tPc = "scanning"
    /\ tNext <= Len(tDirs)
    /\ LET found == scanDirectory(tDirs[tNext], "VST3", <<".vst3">>)
       IN  /\ tPlugins' = IF found.threw THEN tPlugins ELSE tPlugins \o found.plugins
           /\ tThrew' = (tThrew \/ found.threw)
    /\ tNext' = tNext + 1
    /\ UNCHANGED <<tDirs, tPc, tOthers>>

\* return plugins
ReturnPlugins ==
    /\ tPc = "scanning"
    /\ tNext > Len(tDirs)
    /\ tPc' = "returned"
    /\ UNCHANGED <<tDirs, tNext, tPlugins, tThrew, tOthers>>

----------------------------------------------------------------------------
(* Parallel extraction: several parseProject calls in flight at once; a   *)
(* call can be overtaken at its awaits (readFile, gunzip), while          *)
(* extractVSTPlugins itself is synchronous and runs in one piece          *)

\* extractVSTPlugins that keeps the list of the calls before
ExtractCall_KeepsList(earlier, tags) ==
    LET alone == extractVSTPlugins(tags)
    IN  IF alone.threw THEN alone
        ELSE [threw   |-> FALSE,
              plugins |-> SortStrings(Unique(earlier \o alone.plugins))]

\* a call of extractVSTPlugins(xmlString) on a scanner whose earlier calls
\* returned the plugins earlier: plugins, foundPlugins and the patterns are
\* created by the call itself, and nothing of the scanner object is read
ExtractCall(earlier, tags) == extractVSTPlugins(tags)

NotExtracted == [threw |-> FALSE, plugins |-> <<"<pending>">>]

ParallelInit ==
    /\ \E n \in 1..MaxParallel :
          /\ eDocs \in [1..n -> DocumentParts]
          /\ ePc = [i \in 1..n |-> "reading"]
          /\ eResult = [i \in 1..n |-> NotExtracted]
    /\ eEarlier = <<>>

\* const xmlData = await gunzip(compressedData) of parse i is resolved
Decoded ==
    \E i \in 1..Len(eDocs) :
        /\ ePc[i] = "reading"
        /\ ePc' = [ePc EXCEPT ![i] = "decoded"]
        /\ UNCHANGED <<eDocs, eResult, eEarlier, eOthers>>

\* const vstPlugins = this.extractVSTPlugins(xmlString) of parse i
ExtractDocument ==
    \E i \in 1..Len(eDocs) :
        /\ ePc[i] = "decoded"
        /\ eResult' = [eResult EXCEPT ![i] = ExtractCall(eEarlier, eDocs[i])]
        /\ eEarlier' = eEarlier \o eResult'[i].plugins
        /\ ePc' = [ePc EXCEPT ![i] = "extracted"]
        /\ UNCHANGED <<eDocs, eOthers>>

----------------------------------------------------------------------------
(* scanAll with the catalog load in flight: scanner.js, scanAll, and      *)
(* metadata.js, the constructor's this.loadMetadata() that nothing awaits *)

\* the catalog documents on disk when the scanner is constructed
ShelfCatalogs ==
    {<<>>,
     <<CatalogEntry("Serum", "Xfer Records")>>,
     <<CatalogEntry("Massive", "Native Instruments"),
       CatalogEntry("Serum", "Xfer Records")>>}

\* new PluginScanner(): this.metadata = new PluginMetadata()
ScanAllInit ==
    /\ ScanInit
    /\ mPc = "constructed"
    /\ catalogFile \in [readable : BOOLEAN, plugins : ShelfCatalogs]
    /\ metadata = [loaded |-> FALSE, plugins |-> <<>>]
    /\ mPlugin = [name |-> "", vendor |-> ""]
    /\ mResult = [returned |-> "unloaded", meta |-> NoMeta]
    /\ mEnriched = NotEnriched
    /\ enrichedPlugins = <<>>

\* const enrichedPlugins = consolidatedPlugins.map(plugin =>
\*     this.metadata.enrichPlugin(plugin)), with this.metadata.metadata as
\* it is at that moment
EnrichAll ==
    /\ sPc = "consolidated"
    /\ enrichedPlugins' = [i \in 1..Len(consolidatedPlugins) |->
                              enrichPlugin(metadata, consolidatedPlugins[i])]
    /\ sPc' = "enriched"
    /\ UNCHANGED <<allPlugins, consolidatedPlugins, nVars, xVars, lVars, mVars,
                   aVars, dVars, cVars, rVars, pVars, tVars, eVars>>

----------------------------------------------------------------------------
(* Specifications: one per component; the other components stay idle *)

NormIdle ==
    /\ nPc = "idle"
    /\ nName = ""
    /\ nVariant = ""
    /\ nKey = ""
    /\ nKey2 = ""
    /\ nVariantKey = ""

ScanIdle ==
    /\ sPc = "idle"
    /\ allPlugins = <<>>
    /\ consolidatedPlugins = <<>>

ExtractIdle ==
    /\ xPc = "idle"
    /\ xParts = <<>>
    /\ xResult = [threw |-> FALSE, plugins |-> <<>>]

LinkIdle ==
    /\ lPc = "idle"
    /\ lProjects = <<>>
    /\ pluginsWithUsage = <<>>
    /\ lFirst = <<>>
    /\ lCalls = 0

MatchIdle ==
    /\ mPc = "idle"
    /\ catalogFile = [readable |-> FALSE, plugins |-> <<>>]
    /\ metadata = [loaded |-> FALSE, plugins |-> <<>>]
    /\ mPlugin = [name |-> "", vendor |-> ""]
    /\ mResult = [returned |-> "unloaded", meta |-> NoMeta]
    /\ mEnriched = NotEnriched

ProjectsIdle ==
    /\ aPc = "idle"
    /\ alsFiles = <<>>
    /\ aNext = 1
    /\ projectData = <<>>

DemoIdle ==
    /\ dPc = "idle"
    /\ dPath = ""
    /\ dIsDemo = FALSE

ClassifyIdle ==
    /\ cPc = "idle"
    /\ cName = ""
    /\ cResult = NoCategory

RawIdle ==
    /\ rPc = "idle"
    /\ rawInstallations = <<>>
    /\ rConsolidated = <<>>

ParseIdle ==
    /\ pPc = "idle"
    /\ pFile = <<>>
    /\ pResult = <<>>

TypeScanIdle ==
    /\ tPc = "idle"
    /\ tDirs = <<>>
    /\ tNext = 1
    /\ tPlugins = <<>>
    /\ tThrew = FALSE

ParallelIdle ==
    /\ eDocs = <<>>
    /\ ePc = <<>>
    /\ eResult = <<>>
    /\ eEarlier = <<>>

EnrichAllIdle ==
    /\ enrichedPlugins = <<>>

NormNext ==
    \/ Normalize
    \/ NormalizeAgain
    \/ NormalizeAnnotated
    \/ NormalizePrefixed
    \/ NormalizeRecased

InitNorm == NormInit /\ ScanIdle /\ ExtractIdle /\ LinkIdle /\ MatchIdle /\ ProjectsIdle /\ DemoIdle
    /\ ClassifyIdle /\ RawIdle
    /\ ParseIdle
    /\ TypeScanIdle
    /\ ParallelIdle
    /\ EnrichAllIdle

SpecNorm == InitNorm /\ [][NormNext]_vars

ScanNext ==
    \/ FoundPlugin
    \/ Consolidate

InitScan == ScanInit /\ NormIdle /\ ExtractIdle /\ LinkIdle /\ MatchIdle /\ ProjectsIdle /\ DemoIdle
    /\ ClassifyIdle /\ RawIdle
    /\ ParseIdle
    /\ TypeScanIdle
    /\ ParallelIdle
    /\ EnrichAllIdle

SpecScan == InitScan /\ [][ScanNext]_vars

ExtractNext ==
    \/ DecodedPart
    \/ Extract

InitExtract == ExtractInit /\ NormIdle /\ ScanIdle /\ LinkIdle /\ MatchIdle /\ ProjectsIdle /\ DemoIdle
    /\ ClassifyIdle /\ RawIdle
    /\ ParseIdle
    /\ TypeScanIdle
    /\ ParallelIdle
    /\ EnrichAllIdle

SpecExtract == InitExtract /\ [][ExtractNext]_vars

LinkNext ==
    \/ FoundPlugin
    \/ Consolidate
    \/ ParsedProject
    \/ Link

InitLink == LinkInit /\ ScanInit /\ NormIdle /\ ExtractIdle /\ MatchIdle /\ ProjectsIdle /\ DemoIdle
    /\ ClassifyIdle /\ RawIdle
    /\ ParseIdle
    /\ TypeScanIdle
    /\ ParallelIdle
    /\ EnrichAllIdle

SpecLink == InitLink /\ [][LinkNext]_vars

RelinkNext ==
    \/ FoundPlugin
    \/ Consolidate
    \/ ParsedProject
    \/ Link
    \/ Relink

InitRelink == LinkInit /\ ScanInit /\ NormIdle /\ ExtractIdle /\ MatchIdle /\ ProjectsIdle /\ DemoIdle
    /\ ClassifyIdle /\ RawIdle
    /\ ParseIdle
    /\ TypeScanIdle
    /\ ParallelIdle
    /\ EnrichAllIdle

SpecRelink == InitRelink /\ [][RelinkNext]_vars

MatchNext ==
    \/ LoadMetadata
    \/ LoadMetadataFailed
    \/ FindPluginMetadata

InitMatch == MatchInit /\ NormIdle /\ ScanIdle /\ ExtractIdle /\ LinkIdle /\ ProjectsIdle /\ DemoIdle
    /\ ClassifyIdle /\ RawIdle
    /\ ParseIdle
    /\ TypeScanIdle
    /\ ParallelIdle
    /\ EnrichAllIdle

SpecMatch == InitMatch /\ [][MatchNext]_vars

EnrichNext ==
    \/ LoadMetadata
    \/ LoadMetadataFailed
    \/ EnrichPlugin

InitEnrich == MatchInit /\ NormIdle /\ ScanIdle /\ ExtractIdle /\ LinkIdle /\ ProjectsIdle /\ DemoIdle
    /\ ClassifyIdle /\ RawIdle
    /\ ParseIdle
    /\ TypeScanIdle
    /\ ParallelIdle
    /\ EnrichAllIdle

SpecEnrich == InitEnrich /\ [][EnrichNext]_vars

ProjectsNext ==
    \/ ScanProjectFile
    \/ ReturnProjects

InitProjects ==
    /\ ProjectsInit /\ NormIdle /\ ScanIdle /\ ExtractIdle /\ LinkIdle
    /\ MatchIdle /\ DemoIdle /\ ClassifyIdle /\ RawIdle
    /\ ParseIdle
    /\ TypeScanIdle
    /\ ParallelIdle
    /\ EnrichAllIdle

SpecProjects == InitProjects /\ [][ProjectsNext]_vars

\* the predicates that hold while the scan, the extractor, the linker, the
\* matcher and the project scan are not running
AllIdle ==
    /\ NormIdle /\ ScanIdle /\ ExtractIdle /\ LinkIdle /\ MatchIdle
    /\ ProjectsIdle

DemoNext ==
    \/ DetectDemo

InitDemo == DemoInit /\ AllIdle /\ ClassifyIdle /\ RawIdle
    /\ ParseIdle
    /\ TypeScanIdle
    /\ ParallelIdle
    /\ EnrichAllIdle

SpecDemo == InitDemo /\ [][DemoNext]_vars

ClassifyNext ==
    \/ Classify

InitClassify == ClassifyInit /\ AllIdle /\ DemoIdle /\ RawIdle
    /\ ParseIdle
    /\ TypeScanIdle
    /\ ParallelIdle
    /\ EnrichAllIdle

SpecClassify == InitClassify /\ [][ClassifyNext]_vars

RawNext ==
    \/ ConsolidateRaw

InitRaw == RawInit /\ AllIdle /\ DemoIdle /\ ClassifyIdle
    /\ ParseIdle
    /\ TypeScanIdle
    /\ ParallelIdle
    /\ EnrichAllIdle

SpecRaw == InitRaw /\ [][RawNext]_vars

ParseNext ==
    \/ ParseProject

InitParse == ParseInit /\ AllIdle /\ DemoIdle /\ ClassifyIdle /\ RawIdle
    /\ TypeScanIdle
    /\ ParallelIdle
    /\ EnrichAllIdle

SpecParse == InitParse /\ [][ParseNext]_vars

TypeScanNext ==
    \/ ScanPluginPath
    \/ ReturnPlugins

InitTypeScan ==
    /\ TypeScanInit /\ AllIdle /\ DemoIdle /\ ClassifyIdle /\ RawIdle
    /\ ParseIdle
    /\ ParallelIdle
    /\ EnrichAllIdle

SpecTypeScan == InitTypeScan /\ [][TypeScanNext]_vars

LookupNext ==
    \/ LoadMetadata
    \/ LoadMetadataFailed
    \/ FindPluginMetadata

InitLookup ==
    /\ LookupInit /\ NormIdle /\ ScanIdle /\ ExtractIdle /\ LinkIdle
    /\ ProjectsIdle /\ DemoIdle /\ ClassifyIdle /\ RawIdle /\ ParseIdle
    /\ TypeScanIdle
    /\ ParallelIdle
    /\ EnrichAllIdle

SpecLookup == InitLookup /\ [][LookupNext]_vars

ParallelNext ==
    \/ Decoded
    \/ ExtractDocument

InitParallel ==
    /\ ParallelInit /\ AllIdle /\ DemoIdle /\ ClassifyIdle /\ RawIdle
    /\ ParseIdle /\ TypeScanIdle
    /\ EnrichAllIdle

SpecParallel == InitParallel /\ [][ParallelNext]_vars

ScanAllNext ==
    \/ FoundPlugin
    \/ Consolidate
    \/ EnrichAll
    \/ LoadMetadata
    \/ LoadMetadataFailed

InitScanAll ==
    /\ ScanAllInit /\ NormIdle /\ ExtractIdle /\ LinkIdle /\ ProjectsIdle
    /\ DemoIdle /\ ClassifyIdle /\ RawIdle /\ ParseIdle /\ TypeScanIdle
    /\ ParallelIdle

SpecScanAll == InitScanAll /\ [][ScanAllNext]_vars

----------------------------------------------------------------------------
(* Claims about the name normalizer *)

\* C4: the consolidation name normalizer is idempotent: normalizing the
\* result of normalizing a name gives the same key as normalizing it once
C4_Idempotent ==
    nPc \in {"rekeyed", "varied"} => nKey2 = nKey

\* C5: two display names that differ only by a packaging annotation, by a
\* duplicated known vendor prefix or by letter casing normalize to the same
\* consolidation key
C5_SameKeyForVariants ==
    nPc = "varied" => nVariantKey = nKey

----------------------------------------------------------------------------
(* Claims about consolidation *)

Range(seq) == {seq[i] : i \in 1..Len(seq)}

\* the installations of the scan that have the consolidation key of entity e
InstallationsOf(e) ==
    {i \in 1..Len(allPlugins) :
        normalizePluginName(allPlugins[i].name) = normalizePluginName(e.name)}

\* C1: after consolidatePlugins, two installations whose names normalize to
\* the same key are in the formats list of one consolidated entity, and no
\* two consolidated entities have names that normalize to the same key
C1_OneEntityPerKey ==
    sPc = "consolidated" =>
        /\ \A i, j \in 1..Len(allPlugins) :
              normalizePluginName(allPlugins[i].name)
                  = normalizePluginName(allPlugins[j].name)
              => \E k \in 1..Len(consolidatedPlugins) :
                    {FormatEntry(allPlugins[i]), FormatEntry(allPlugins[j])}
                        \subseteq Range(consolidatedPlugins[k].formats)
        /\ \A k, l \in 1..Len(consolidatedPlugins) :
              k # l => normalizePluginName(consolidatedPlugins[k].name)
                           # normalizePluginName(consolidatedPlugins[l].name)

\* two installations with different names and one key were consolidated,
\* next to an installation with another key
C1_Witness ==
    /\ sPc = "consolidated"
    /\ Len(consolidatedPlugins) >= 2
    /\ \E i, j \in 1..Len(allPlugins) :
          /\ allPlugins[i].name # allPlugins[j].name
          /\ normalizePluginName(allPlugins[i].name)
                 = normalizePluginName(allPlugins[j].name)

PermutationsOf(n) ==
    {p \in [1..n -> 1..n] : \A i, j \in 1..n : p[i] = p[j] => i = j}

\* what the comparison of two consolidations looks at
Summary(list) ==
    {[key      |-> normalizePluginName(e.name),
      formats  |-> Range(e.formats),
      modified |-> e.modified] : e \in Range(list)}

\* C6: consolidation is order-insensitive: every permutation of the scanned
\* installations consolidates to the same set of entities, compared by key,
\* set of formats entries and modified timestamp
C6_OrderInsensitive ==
    sPc = "consolidated" =>
        \A p \in PermutationsOf(Len(allPlugins)) :
            Summary(consolidatePlugins([i \in 1..Len(allPlugins) |-> allPlugins[p[i]]]))
                = Summary(consolidatedPlugins)

\* an entity merged from installations whose first one is not the latest
C6_Witness ==
    /\ sPc = "consolidated"
    /\ \E k \in 1..Len(consolidatedPlugins) :
          /\ Len(consolidatedPlugins[k].formats) >= 2
          /\ consolidatedPlugins[k].formats[1].modified
                 # consolidatedPlugins[k].modified
          /\ consolidatedPlugins[k].formats[Len(consolidatedPlugins[k].formats)].modified
                 # consolidatedPlugins[k].modified

\* C7: the id, name, vendor and category of a consolidated entity are those
\* of the first installation of the input with its key; later installations
\* with the key are absorbed into formats and change none of these fields
C7_FirstSeenWins ==
    sPc = "consolidated" =>
        \A k \in 1..Len(consolidatedPlugins) :
            LET e == consolidatedPlugins[k]
            IN  /\ InstallationsOf(e) # {}
                /\ LET first == allPlugins[CHOOSE i \in InstallationsOf(e) :
                                    \A j \in InstallationsOf(e) : i <= j]
                   IN  /\ e.id = first.id
                       /\ e.name = first.name
                       /\ e.vendor = first.vendor
                       /\ e.category = first.category
                /\ Len(e.formats) = Cardinality(InstallationsOf(e))

\* a later, more recent installation with another id, name and vendor was
\* absorbed into an entity
C7_Witness ==
    /\ sPc = "consolidated"
    /\ \E k \in 1..Len(consolidatedPlugins) :
          \E j \in InstallationsOf(consolidatedPlugins[k]) :
              /\ allPlugins[j].id # consolidatedPlugins[k].id
              /\ allPlugins[j].name # consolidatedPlugins[k].name
              /\ allPlugins[j].vendor # consolidatedPlugins[k].vendor
              /\ allPlugins[j].modified > consolidatedPlugins[k].formats[1].modified

----------------------------------------------------------------------------
(* Claims about project plugin extraction *)

\* C2: a document that holds only browsing-history references, and no
\* device-wrapped plugin-info block, yields the empty list
C2_HistoryYieldsNothing ==
    (/\ xPc = "extracted"
     /\ \A i \in 1..Len(xParts) : xParts[i] \in HistoryParts)
    => (~xResult.threw /\ xResult.plugins = <<>>)

\* the document is made of exactly the parts of ps, each once, in any order
MadeOf(ps) ==
    /\ Len(xParts) = Cardinality(ps)
    /\ \A part \in ps : \E i \in 1..Len(xParts) : xParts[i] = part

\* C12: a document with one device-wrapped Vst3PluginInfo block whose Name
\* is "Helix Native" and one bare browsing-history path that references
\* "Serum" makes extractVSTPlugins return normally, with exactly
\* ["Helix Native"]
C12_HelixWithoutHistory ==
    (xPc = "extracted" /\ MadeOf({DeviceHelix, HistorySerum}))
        => (~xResult.threw /\ xResult.plugins = <<"Helix Native">>)

\* C13: for every document extractVSTPlugins returns a list that holds no
\* string twice and is sorted in ascending order, so a name that occurs in
\* two device blocks (VstPluginInfo or Vst3PluginInfo) occurs once
C13_NoRepeatsAndSorted ==
    xPc = "extracted" =>
        /\ ~xResult.threw
        /\ \A i, j \in 1..Len(xResult.plugins) :
              i < j => /\ xResult.plugins[i] # xResult.plugins[j]
                       /\ CodeUnitLess(xResult.plugins[i], xResult.plugins[j])

\* C14: no string of the result is shorter than 2 characters, is a built-in
\* device name, still carries a .dll/.vst/.vst3/.component extension, or
\* matches a generic non-plugin pattern (track label, "N - " prefix, date
\* stamp, GUID-shaped token)
C14_NoJunkInResult ==
    (xPc = "extracted" /\ ~xResult.threw) =>
        \A i \in 1..Len(xResult.plugins) :
            LET name == xResult.plugins[i]
            IN  /\ Len(name) >= 2
                /\ name \notin builtInDevices
                /\ \A k \in 1..Len(PluginExtensions) :
                      ~EndsWithNoCase(name, PluginExtensions[k])
                /\ ~IsTrackName(name)
                /\ ~IsNumberedName(name)
                /\ ~HasDateStamp(name)
                /\ ~IsGuid(name)

\* the cleaned values of the fields (Name for Vst3PluginInfo, FileName for
\* VstPluginInfo) of tags, either all of them or only those that stand
\* between the opening and the closing tag of a plugin-info block
FieldValues(tags, insideOnly) ==
    {Ableton_cleanPluginName(FieldMatch(tags[f], vstPatterns[k]).value) :
        <<f, k>> \in
            {fk \in (1..Len(tags)) \X (1..Len(vstPatterns)) :
                /\ FieldMatch(tags[fk[1]], vstPatterns[fk[2]]).matched
                /\ insideOnly =>
                      \E b \in 1..(fk[1] - 1) :
                          /\ IsOpenTag(tags[b], vstPatterns[fk[2]].block)
                          /\ \A j \in b..fk[1] :
                                tags[j] # "</" \o vstPatterns[fk[2]].block \o ">"}}

\* C15: a Name or FileName value is accepted only when the field lies
\* inside a plugin-info block; a block without such a field never makes a
\* value that stands later in the document, outside the block, accepted
C15_OnlyInsideBlocks ==
    (xPc = "extracted" /\ ~xResult.threw) =>
        \A i \in 1..Len(xResult.plugins) :
            xResult.plugins[i] \in FieldValues(Flatten(xParts), FALSE)
                => xResult.plugins[i] \in FieldValues(Flatten(xParts), TRUE)

\* the files of list l that parseProject gives a result for, in order
RECURSIVE ParsedOf(_)
ParsedOf(l) ==
    IF l = <<>> THEN <<>>
    ELSE (IF Head(l).content = "gzip" /\ ~parseProject(Head(l)).isNull
          THEN <<parseProject(Head(l)).project>> ELSE <<>>) \o ParsedOf(Tail(l))

\* C16: in scanAllProjects a project file that cannot be read or decoded
\* yields no result and is skipped: the batch is never aborted, every later
\* file is still processed, and the returned list holds the results of the
\* files that parsed, in file order
C16_FailedFilesAreSkipped ==
    /\ aPc # "aborted"
    /\ aPc = "scanning" => projectData = ParsedOf(SubSeq(alsFiles, 1, aNext - 1))
    /\ aPc = "returned" =>
          /\ aNext = Len(alsFiles) + 1
          /\ projectData = ParsedOf(alsFiles)
          /\ \A i \in 1..Len(alsFiles) :
                alsFiles[i].content # "gzip" =>
                    \A k \in 1..Len(projectData) :
                        projectData[k].filePath # alsFiles[i].filePath

\* C16 witness: the scan has returned the result of a file that stands
\* after an unreadable file and after an undecodable one
C16_Witness ==
    /\ aPc = "returned"
    /\ \E i, j, k \in 1..Len(alsFiles) :
          /\ i < k /\ j < k
          /\ alsFiles[i].content = "unreadable"
          /\ alsFiles[j].content = "plain"
          /\ projectData # <<>>
          /\ projectData[Len(projectData)].filePath = alsFiles[k].filePath

----------------------------------------------------------------------------
(* Claims about usage linking *)

\* the (project, pluginName) pairs whose name is the display name of
\* entity e, ignoring case
MatchingPairs(e) ==
    {pr \in (1..Len(lProjects)) \X (1..MaxParts * 4) :
        /\ pr[2] <= Len(lProjects[pr[1]].vstPlugins)
        /\ toLowerCase(lProjects[pr[1]].vstPlugins[pr[2]]) = toLowerCase(e.name)}

Occurrences(seq, x) == Cardinality({i \in 1..Len(seq) : seq[i] = x})

\* C3: after linkProjectsToPlugins every entity's projectUsage holds one
\* entry {projectName, projectFile, lastModified} for each (project,
\* pluginName) pair whose name equals the entity's display name ignoring
\* case, and nothing else; an entity no project names has an empty list
C3_UsageIsExactlyTheMatches ==
    lPc = "linked" =>
        \A k \in 1..Len(pluginsWithUsage) :
            LET e == pluginsWithUsage[k]
            IN  /\ Len(e.projectUsage) = Cardinality(MatchingPairs(e))
                /\ \A pr \in MatchingPairs(e) :
                      Occurrences(e.projectUsage, UsageEntry(lProjects[pr[1]]))
                          = Cardinality({q \in MatchingPairs(e) : q[1] = pr[1]})

----------------------------------------------------------------------------
(* Claims about the metadata matcher *)

\* the normalized name of the plugin of the last lookup
LookedUpKey == Metadata_normalizePluginName(mPlugin.name)

\* the last lookup ran on the loaded catalog
LookedUp == mPc = "loaded" /\ mResult.returned # "unloaded"

\* C8: exact-first: whenever the catalog has a key equal to the plugin's
\* normalized name, findPluginMetadata returns the entry stored under that
\* key, whatever the order of the catalog and whatever other entries the
\* fuzzy or the vendor-scoped strategy would accept
C8_ExactFirst ==
    LookedUp =>
        \A i \in 1..Len(metadata.plugins) :
            metadata.plugins[i].key = LookedUpKey
                => mResult.meta = metadata.plugins[i]

\* C8 witness: an entry the fuzzy strategy accepts stands before the entry
\* of the plugin's own key, and the lookup has returned the latter
C8_Witness ==
    /\ LookedUp
    /\ \E i, j \in 1..Len(metadata.plugins) :
          /\ i < j
          /\ metadata.plugins[j].key = LookedUpKey
          /\ Len(metadata.plugins[i].key) >= 5 /\ Len(LookedUpKey) >= 5
          /\ SubSeq(metadata.plugins[i].key, 1, 5) = SubSeq(LookedUpKey, 1, 5)
          /\ mResult.meta = metadata.plugins[j]

\* the first n characters of a and b are equal, n being 6 or the length of
\* the shorter of the two when that is under 6
SamePrefix(a, b) ==
    LET n == IF Len(a) < 6 \/ Len(b) < 6 THEN Min(Len(a), Len(b)) ELSE 6
    IN  \A k \in 1..n : SubSeq(a, k, k) = SubSeq(b, k, k)

\* the entries the prefix rule selects for the looked-up plugin, among
\* the pairs of non-empty names whose shorter name has at least least chars
PrefixSelected(least) ==
    {i \in 1..Len(metadata.plugins) :
        LET k == Metadata_normalizePluginName(metadata.plugins[i].key)
        IN  /\ Len(LookedUpKey) >= least
            /\ Len(k) >= least
            /\ SamePrefix(LookedUpKey, k)}

\* C9 as stated: (once the exact strategy has missed) the fuzzy strategy
\* accepts an entry exactly when the first N characters of the plugin's
\* normalized name equal those of the key's normalized form, N = 6 or the
\* length of the shorter name, for every pair of non-empty names
C9_FuzzyIsPrefixEquality_AnyLength ==
    (LookedUp /\ mResult.returned # "exact") =>
        /\ mResult.returned = "fuzzy" <=> PrefixSelected(1) # {}
        /\ mResult.returned = "fuzzy" =>
              \E i \in PrefixSelected(1) : mResult.meta = metadata.plugins[i]

\* C9 amended: the same for the pairs whose shorter name has at least 3
\* characters; a pair with a shorter name is never accepted
C9_FuzzyIsPrefixEquality ==
    (LookedUp /\ mResult.returned # "exact") =>
        /\ mResult.returned = "fuzzy" <=> PrefixSelected(3) # {}
        /\ mResult.returned = "fuzzy" =>
              \E i \in PrefixSelected(3) : mResult.meta = metadata.plugins[i]

\* C9 witness: the fuzzy strategy has accepted an entry on its first six
\* characters, the two names being longer and different
C9_Witness ==
    /\ LookedUp
    /\ mResult.returned = "fuzzy"
    /\ Len(mResult.meta.key) > 6
    /\ Len(LookedUpKey) > 6
    /\ mResult.meta.key # LookedUpKey

\* does sub occur in s, ignoring case
OccursNoCase(s, sub) ==
    \E p \in 1..(Len(s) - Len(sub) + 1) :
        \A k \in 1..Len(sub) :
            ToLowerChar(SubSeq(s, p + k - 1, p + k - 1))
                = ToLowerChar(SubSeq(sub, k, k))

\* the entries whose vendor contains the plugin's vendor and whose
\* normalized name's first four characters occur in the plugin's
VendorSelected ==
    {i \in 1..Len(metadata.plugins) :
        LET four == SubSeq(Metadata_normalizePluginName(metadata.plugins[i].name),
                           1, Min(4, Len(Metadata_normalizePluginName(
                                             metadata.plugins[i].name))))
        IN  /\ OccursNoCase(metadata.plugins[i].vendor, mPlugin.vendor)
            /\ \E p \in 1..(Len(LookedUpKey) - Len(four) + 1) :
                  SubSeq(LookedUpKey, p, p + Len(four) - 1) = four}

\* C10: when neither the exact nor the fuzzy strategy matches and the
\* plugin has a vendor, findPluginMetadata returns a catalog entry if and
\* only if some entry's vendor contains the plugin's vendor (ignoring case)
\* and the first four characters of that entry's normalized name occur in
\* the plugin's normalized name; otherwise it returns no match
C10_VendorScoped ==
    (LookedUp /\ mResult.returned \notin {"exact", "fuzzy"} /\ mPlugin.vendor # "") =>
        /\ mResult.meta # NoMeta <=> VendorSelected # {}
        /\ mResult.meta # NoMeta =>
              \E i \in VendorSelected : mResult.meta = metadata.plugins[i]

\* C10 witness: the lookup has returned an entry by the vendor-scoped
\* strategy, the plugin's vendor being written in another case
C10_Witness ==
    /\ LookedUp
    /\ mResult.returned = "vendor"
    /\ mPlugin.vendor = "xfer"
    /\ mResult.meta.vendor = "Xfer Records"

\* the fields enrichPlugin takes from the catalog entry as they are
CopiedFields ==
    {"description", "subcategory", "website", "price", "popularity", "releaseYear"}

\* the returned entity r is plugin p enriched from the catalog entry e
EnrichedFrom(r, p, e) ==
    /\ \A f \in CopiedFields : r[f] = e[f]
    /\ r.tags = IF e.tags = Null THEN <<>> ELSE e.tags
    /\ r.category = IF e.category = Null THEN p.category ELSE e.category

\* C11: enrichPlugin sets hasMetadata to true exactly when a catalog entry
\* was matched; on a match description, subcategory, tags, website, price,
\* popularity and releaseYear come from that entry and the category is the
\* entry's, the plugin's guessed category being kept only when the entry
\* has none; on no match hasMetadata is false and the plugin's own fields
\* are unchanged
C11_EnrichedExactlyOnMatch ==
    (mEnriched.called /\ mEnriched.loaded) =>
        LET r == mEnriched.result
            p == mEnriched.plugin
        IN  /\ r.hasMetadata =>
                  \E i \in 1..Len(metadata.plugins) :
                      /\ findPluginMetadata(metadata, p).meta = metadata.plugins[i]
                      /\ EnrichedFrom(r, p, metadata.plugins[i])
            /\ ~r.hasMetadata =>
                  /\ \A i \in 1..Len(metadata.plugins) :
                        findPluginMetadata(metadata, p).meta # metadata.plugins[i]
                  /\ \A f \in DOMAIN p : r[f] = p[f]

----------------------------------------------------------------------------
(* Claims about demo detection *)

\* the file name of the installation, without extension, in lower case
DemoFileName == toLowerCase(basenameNoExt(dPath))

\* sub occurs in s
Occurs(s, sub) ==
    \E p \in 1..(Len(s) - Len(sub) + 1) : SubSeq(s, p, p + Len(sub) - 1) = sub

\* C17 as stated: true for every installation whose path contains the
\* segment "/Kontakt 7 Player/", false for the path "/Serum/Serum.vst3"
C17_KontaktPlayerFolder ==
    dPc = "detected" =>
        /\ Occurs(dPath, "/Kontakt 7 Player/") => dIsDemo
        /\ dPath = "/Serum/Serum.vst3" => ~dIsDemo

\* C17 amended: true for every installation whose file name contains
\* "Kontakt 7 Player" in any letter case, false for "/Serum/Serum.vst3"
C17_KontaktPlayerFile ==
    dPc = "detected" =>
        /\ Occurs(DemoFileName, "kontakt 7 player") => dIsDemo
        /\ dPath = "/Serum/Serum.vst3" => ~dIsDemo

\* C17 witness: an installation named after the player, in a folder that
\* says nothing, has been detected as a demo
C17_Witness ==
    /\ dPc = "detected"
    /\ dPath = "/Library/Audio/Plug-Ins/VST3/Serum/KONTAKT 7 PLAYER.vst3"
    /\ dIsDemo

\* C18 as stated: true if and only if the lower-cased file name or some
\* path segment contains one of demo, trial, lite, limited, beta, preview,
\* or the lower-cased display name is exactly one of the known demo names
C18_KeywordOrExactName ==
    dPc = "detected" =>
        (dIsDemo <=>
            \/ \E kw \in {"demo", "trial", "lite", "limited", "beta", "preview"} :
                  \/ Occurs(DemoFileName, kw)
                  \/ \E i \in 1..Len(SplitPath(dPath)) :
                        Occurs(toLowerCase(SplitPath(dPath)[i]), kw)
            \/ toLowerCase(cleanPluginName(basenameNoExt(dPath)))
                  \in {"kontakt player", "kontakt 7 player",
                       "amplitube custom shop", "guitar rig player",
                       "reaktor player"})

\* C18 amended: true if and only if the lower-cased file name contains one
\* of demo, trial, lite, limited, free, eval, evaluation, " le ", "_le_",
\* " le.", "_le.", beta, preview, sample, or the lower-cased path has a
\* folder named demo, trial, free, beta or preview, or the lower-cased file
\* name contains one of the known demo names
C18_DemoRule ==
    dPc = "detected" =>
        (dIsDemo <=>
            \/ \E kw \in {"demo", "trial", "lite", "limited", "free", "eval",
                          "evaluation", " le ", "_le_", " le.", "_le.", "beta",
                          "preview", "sample"} : Occurs(DemoFileName, kw)
            \/ \E folder \in {"demo", "trial", "free", "beta", "preview"} :
                  \/ Occurs(toLowerCase(dPath), "/" \o folder \o "/")
                  \/ Occurs(toLowerCase(dPath), "\\" \o folder \o "\\")
            \/ \E known \in {"kontakt player", "kontakt 7 player",
                             "amplitube custom shop", "guitar rig player",
                             "reaktor player"} : Occurs(DemoFileName, known))

\* C18 witness: an installation whose file name has no indicator has been
\* detected as a demo because it lies in a folder named free
C18_Witness ==
    /\ dPc = "detected"
    /\ dPath = "/free/Pro-Q 3.vst3"
    /\ dIsDemo

----------------------------------------------------------------------------
(* Claims about the classifier *)

\* the bucket that returns the subcategory label ("<synth>" for the
\* synthesizer family, whose subcategory depends on the name)
BucketNamed(label) ==
    CHOOSE b \in Range(CategoryBuckets) : b.subcategory = label

\* a keyword of the bucket occurs in the lower-cased name
Hits(name, label) ==
    MatchesAny(toLowerCase(name), BucketNamed(label).keywords)

\* the first label of order whose bucket is hit, "none" when no bucket is
FirstIn(order, name) ==
    IF \E k \in 1..Len(order) : Hits(name, order[k])
    THEN order[CHOOSE k \in 1..Len(order) :
                   Hits(name, order[k])
                   /\ \A j \in 1..(k - 1) : ~Hits(name, order[j])]
    ELSE "none"

ClassifiedAs(result, label) ==
    IF label = "none"
    THEN result = [category |-> "Other", subcategory |-> Null]
    ELSE /\ result.category = BucketNamed(label).category
         /\ label # "<synth>" => result.subcategory = label

ClaimedOrder ==
    <<"<synth>", "EQ", "Reverb/Delay", "Dynamics", "Distortion/Saturation",
      "Modulation", "Guitar/Bass", "Advanced Sampler", "Drum Machine",
      "Mastering Suite", "Analysis">>

CodeOrder ==
    <<"<synth>", "EQ", "Reverb/Delay", "Dynamics", "Distortion/Saturation",
      "Modulation", "Advanced Sampler", "Drum Machine", "Keys/Piano",
      "Guitar/Bass", "Mastering Suite", "Analysis">>

\* C19 as stated: the buckets are tried in the order synthesizer family, EQ,
\* reverb/delay, dynamics, distortion, modulation, guitar/bass, sampler, drum
\* machine, mastering suite, utility, and the first one with a keyword in
\* the lower-cased name is returned; no bucket gives Other with no
\* subcategory (names with a keys/piano keyword, a bucket the statement does
\* not place, are left out)
C19_ClaimedOrder ==
    (cPc = "classified" /\ ~Hits(cName, "Keys/Piano"))
        => ClassifiedAs(cResult, FirstIn(ClaimedOrder, cName))

\* C19 amended: the buckets are tried in the order synthesizer family, EQ,
\* reverb/delay, dynamics, distortion, modulation, sampler, drum machine,
\* keys/piano, guitar/bass, mastering suite, utility, and the first one with
\* a keyword in the lower-cased name is returned; no bucket gives Other with
\* no subcategory
C19_CodeOrder ==
    cPc = "classified" => ClassifiedAs(cResult, FirstIn(CodeOrder, cName))

\* C19 witness: a name with a guitar/bass keyword and a sampler keyword has
\* been classified, as a sampler
C19_Witness ==
    /\ cPc = "classified"
    /\ cName = "Guitar Player"
    /\ Hits(cName, "Guitar/Bass") /\ Hits(cName, "Advanced Sampler")
    /\ cResult = [category |-> "Sampler", subcategory |-> "Advanced Sampler"]

----------------------------------------------------------------------------
(* Claims about the consolidation of a given list *)

\* the given list is the two installations of the scenario, the first one
\* under the display name first
SerumPair(first) ==
    /\ rPc = "consolidated"
    /\ Len(rawInstallations) = 2
    /\ rawInstallations[1].name = first
    /\ rawInstallations[1].format = "VST"
    /\ rawInstallations[1].path = "/p/Serum.dll"
    /\ rawInstallations[2].name = "Serum (VST3)"
    /\ rawInstallations[2].format = "VST3"
    /\ rawInstallations[2].path = "/p/Serum.vst3"

OneEntityOfTwoFormats ==
    /\ Len(rConsolidated) = 1
    /\ Len(rConsolidated[1].formats) = 2

\* C20 as stated: the installations named "Serum_x64" (VST, /p/Serum.dll)
\* and "Serum (VST3)" (VST3, /p/Serum.vst3) are consolidated into a single
\* entity whose formats list has length 2
C20_SerumX64Merged ==
    SerumPair("Serum_x64") => OneEntityOfTwoFormats

\* C20 amended: "Serum" is the display name cleanPluginName makes of the
\* file name "Serum_x64", and the installations named "Serum" (VST,
\* /p/Serum.dll) and "Serum (VST3)" (VST3, /p/Serum.vst3) are consolidated
\* into a single entity whose formats list has length 2
C20_SerumMerged ==
    /\ cleanPluginName("Serum_x64") = "Serum"
    /\ SerumPair("Serum") => OneEntityOfTwoFormats

\* C20 witness: the list of the installations named "Serum" and
\* "Serum (VST3)" has been consolidated, into one entity
C20_Witness ==
    /\ SerumPair("Serum")
    /\ Len(rConsolidated) = 1

----------------------------------------------------------------------------
(* Claims about repeated linking *)

\* C21: usage linking is repeatable: after any number of calls of
\* linkProjectsToPlugins on the same projects, with the inventory or with
\* the plugins an earlier call returned, the projectUsage lists are those
\* of the first call, and the plugins of the inventory carry no usage
C21_LinkIsRepeatable ==
    lCalls >= 1 =>
        /\ Len(pluginsWithUsage) = Len(lFirst)
        /\ \A i \in 1..Len(lFirst) :
              pluginsWithUsage[i].projectUsage = lFirst[i].projectUsage
        /\ \A i \in 1..Len(consolidatedPlugins) :
              "projectUsage" \notin DOMAIN consolidatedPlugins[i]

\* C21 witness: linkProjectsToPlugins has been called three times and a
\* plugin is used by a project
C21_Witness ==
    /\ lCalls >= 3
    /\ \E i \in 1..Len(pluginsWithUsage) : pluginsWithUsage[i].projectUsage # <<>>

----------------------------------------------------------------------------
(* Claims about project parsing *)

\* the name the document gives the project: the Name of the LiveSet root,
\* else the value of the Title, "" when neither is there or both are empty
NameInDocument(parts) ==
    IF \E i \in 1..Len(parts) : parts[i] = LiveSetNamed THEN "Intrigue"
    ELSE IF \E i \in 1..Len(parts) : parts[i] = TitleNamed THEN "Beacon Mix"
    ELSE ""

\* the base name of the project file without its .als extension, in
\* whatever case the extension is written
BaseNameOfProject(filePath) ==
    LET b == basename(filePath)
    IN  IF Len(b) > 4 /\ toLowerCase(SubSeq(b, Len(b) - 3, Len(b))) = ".als"
        THEN SubSeq(b, 1, Len(b) - 4)
        ELSE b

\* C22: the project name parseProject produces is the non-empty Name of the
\* LiveSet root, or the non-empty Title value, when the document has one,
\* and otherwise the base name of the project file without the .als
\* extension; it is never empty
C22_NameOrBaseName ==
    (pPc = "parsed" /\ ~pResult.isNull) =>
        /\ pResult.project.name # ""
        /\ pResult.project.name =
               IF NameInDocument(pFile.parts) # ""
               THEN NameInDocument(pFile.parts)
               ELSE BaseNameOfProject(pFile.filePath)

----------------------------------------------------------------------------
(* Claims about the list consolidatePlugins returns *)

C24_FormatsNonEmpty ==
    rPc = "consolidated" =>
        \A k \in 1..Len(rConsolidated) : Len(rConsolidated[k].formats) >= 1

\* C24 witness: a list of two installations has been consolidated into
\* two entities, each with the format of its installation
C24_Witness ==
    /\ rPc = "consolidated"
    /\ Len(rawInstallations) = 2
    /\ Len(rConsolidated) = 2
    /\ \A k \in 1..2 : Len(rConsolidated[k].formats) = 1

\* C26: after consolidation the modified timestamp of every entity is the
\* latest modified timestamp of the installations merged into it, whatever
\* the order in which they were merged
C26_ModifiedIsLatest ==
    sPc = "consolidated" =>
        \A k \in 1..Len(consolidatedPlugins) :
            LET e == consolidatedPlugins[k]
            IN  /\ \E f \in 1..Len(e.formats) : e.formats[f].modified = e.modified
                /\ \A f \in 1..Len(e.formats) : e.formats[f].modified <= e.modified

\* C26 witness: an entity has been merged from a newer installation first
\* and an older one after it
C26_Witness ==
    /\ sPc = "consolidated"
    /\ \E k \in 1..Len(consolidatedPlugins) :
          LET e == consolidatedPlugins[k]
          IN  /\ Len(e.formats) >= 2
              /\ e.formats[1].modified > e.formats[2].modified
              /\ e.modified = e.formats[1].modified

----------------------------------------------------------------------------
(* Claims about the scan of one plugin type *)

\* the paths of the plugins of directory i that can be analysed and stand
\* in the directory itself or in a readable subdirectory of it
ReadablePluginPaths(i) ==
    LET dir      == tDirs[i]
        plugin(e) == /\ toLowerCase(extname(e.name)) = ".vst3"
                     /\ e.stat = "ok"
        subdir(e) == /\ toLowerCase(extname(e.name)) # ".vst3"
                     /\ e.kind = "dir"
                     /\ e.status = "ok"
    IN  IF dir.status # "ok" THEN {}
        ELSE {dir.path \o "/" \o dir.entries[k].name :
                 k \in {k \in 1..Len(dir.entries) : plugin(dir.entries[k])}}
             \cup
             UNION {{dir.path \o "/" \o dir.entries[k].name \o "/"
                         \o dir.entries[k].entries[m].name :
                       m \in {m \in 1..Len(dir.entries[k].entries) :
                                 plugin(dir.entries[k].entries[m])}} :
                    k \in {k \in 1..Len(dir.entries) : subdir(dir.entries[k])}}

\* C25: a directory that does not exist, is not permitted or cannot be read
\* contributes no installation and does not abort the scan: scanDirectory
\* never throws, scanPluginType visits every directory, and it returns the
\* installations of all readable directories, each once
C25_UnreadableDirectoriesAreSkipped ==
    /\ ~tThrew
    /\ tPc = "returned" =>
          /\ tNext = Len(tDirs) + 1
          /\ {tPlugins[k].path : k \in 1..Len(tPlugins)}
                 = UNION {ReadablePluginPaths(i) : i \in 1..Len(tDirs)}
          /\ \A k, l \in 1..Len(tPlugins) :
                k # l => tPlugins[k].path # tPlugins[l].path

\* C25 witness: the scan has returned the installations of the second
\* directory although the first one does not exist
C25_Witness ==
    /\ tPc = "returned"
    /\ Len(tDirs) = 2
    /\ tDirs[1].status = "ENOENT"
    /\ tDirs[2].status = "ok"
    /\ Len(tPlugins) = 1

----------------------------------------------------------------------------
(* Claims about the outcomes of metadata matching *)

\* C27: metadata matching has no fatal outcome: on a catalog whose entries
\* may lack a name or a vendor, findPluginMetadata never throws, and what it
\* returns is an entry of the catalog or no match
C27_NoFatalOutcome ==
    /\ mResult.returned # "threw"
    /\ mResult.returned \in {"exact", "fuzzy", "vendor"}
          => \E i \in 1..Len(metadata.plugins) : mResult.meta = metadata.plugins[i]
    /\ mResult.returned \in {"none", "unloaded"} => mResult.meta = NoMeta

----------------------------------------------------------------------------
(* Claims about parallel extraction *)

----------------------------------------------------------------------------
(* Claims about the catalog load and scanAll *)

\* C29: in every interleaving of the completion of the catalog load with
\* scanAll, a plugin whose normalized name is a key of the catalog on disk
\* ends with hasMetadata = true
C29_EnrichedAgainstLoadedCatalog ==
    sPc = "enriched" =>
        \A i \in 1..Len(enrichedPlugins) :
            (/\ catalogFile.readable
             /\ KeyIndex(catalogFile.plugins,
                         Metadata_normalizePluginName(enrichedPlugins[i].name)) > 0)
                => enrichedPlugins[i].hasMetadata

----------------------------------------------------------------------------
(* Claims about the plugin ids *)

\* C30: generatePluginId gives distinct ids to distinct installation paths,
\* so no two consolidated entities of one inventory share an id, and the
\* usage table of linkProjectsToPlugins, keyed by id, gives an entity no
\* usage entry of a project that matches only another entity
C30_DistinctPathsDistinctIds ==
    /\ \A i, j \in 1..Len(allPlugins) :
          allPlugins[i].path # allPlugins[j].path
              => generatePluginId(allPlugins[i].path)
                     # generatePluginId(allPlugins[j].path)
    /\ \A i, j \in 1..Len(consolidatedPlugins) :
          i # j => consolidatedPlugins[i].id # consolidatedPlugins[j].id
    /\ lPc = "linked" =>
          \A k \in 1..Len(pluginsWithUsage) :
              \A u \in 1..Len(pluginsWithUsage[k].projectUsage) :
                  \E pr \in MatchingPairs(pluginsWithUsage[k]) :
                      pluginsWithUsage[k].projectUsage[u]
                          = UsageEntry(lProjects[pr[1]])

====
